---- MODULE Spec2Model ----
(***************************************************************************)
(* A model of the lightnvm / dm-openssd flash translation layer.           *)
(*                                                                         *)
(* The repository holds several generations of the same driver.  The       *)
(* specification Spec models the newest one: the request path and the      *)
(* mapping primitives of drivers/vsl/vsl.c, the block lists of             *)
(* drivers/md/dm-openssd-core.c, the pool construction of                  *)
(* drivers/md/dm-openssd-mod.c and the garbage collector of                *)
(* nvm_gc_collect / nvm_gc_block / nvm_move_valid_pages.                   *)
(***************************************************************************)
EXTENDS Integers, Sequences, FiniteSets, TLC

----------------------------------------------------------------------------
(* Bounds of the model *)

\* number of pools (channels) of the device
NrPools == 1

\* blocks per pool (nr_blks_per_pool)
NrBlksPerPool == 10

\* flash pages per block (nr_pages_per_blk)
NrPagesPerBlk == 2

\* logical addresses the host touches: 0 .. NrLAddrs-1
NrLAddrs == 2

\* host requests that can be outstanding together
NrReqs == 1

\* cap of the round-robin counter next_write_ap
MaxAlloc == 20

\* bios of the dm-openssd request path that can be outstanding together
NrBios == 2

\* cap of next_write_ap in the dm-openssd request path
MaxCoreAlloc == 4

\* SpecV0: pools, blocks per pool, pages per block, allocation attempts
NrPoolsV0 == 2

NrBlksPerPoolV0 == 4

NrPagesPerBlkV0 == 2

MaxAllocV0 == 10
\* SpecV0Wide: logical addresses written, allocation attempts
NrLAddrsV0 == 3

MaxAllocV0Wide == 5
\* SpecV0Full: the host's writes, enough to use up every block of both pools
MaxAllocV0Full == 20
\* SpecV0Full: the writes for which the host chooses its address freely
FreeWritesV0Full == 8
\* SpecAp: the counter starts within ApWindow increments of INT_MAX, or at
\* its initial value; up to MaxAps append points; MaxApCalls calls
ApWindow == 6
MaxAps == 4
MaxApCalls == 8

\* SpecLock: the tasks that run lock sections, and the pools, blocks and
\* inflight shards whose locks they take
NrLockTasks == 3

NrLockPools == 2

NrLockBlocks == 2

NrLockShards == 1

\* SpecSel: blocks per pool, append points per pool, logical addresses
SelBlksPerPool == { 10, 11 }

MaxSelAps == 3

NrLAddrsSel == 1

\* SpecGc: logical addresses the host writes, and its write requests
NrLAddrsGc == 2

MaxGcWrites == 12

\* SpecPrio: the blocks of the priority list and the most invalid pages of one
NrPrioBlocks == 3

MaxPrioInvalid == 2

\* SpecHint: concurrent writers, pending hints, and a cap on the round-robin
\* counter (a larger one for the swap target, whose blocks have eight pages)
NrHintWriters == 2

MaxHints == 1

\* SpecHint: hints pending at a time in the pack target (one per inode)
MaxPackHints == 2

MaxHintAlloc == 5

MaxSwapAlloc == 17

----------------------------------------------------------------------------
(* Program constants *)

APS_PER_POOL == 1

FLASH_PAGE_SIZE == 4096

EXPOSED_PAGE_SIZE == 4096

NR_HOST_PAGES_IN_FLASH_PAGE == FLASH_PAGE_SIZE \div EXPOSED_PAGE_SIZE

LTOP_EMPTY == -1

\* the poison written over a superseded reverse entry; any value that is
\* neither a logical address nor LTOP_EMPTY
LTOP_POISON == LTOP_EMPTY - 1

\* 0xDEADBEEF, the initial content of the reverse map, as a 32 bit pattern
DEADBEEF == -559038737

\* nvm_gc_collect needs nr_blocks / 10 free blocks
GC_LIMIT_INVERSE == 10

\* a NULL block pointer and a NULL append point pointer
NoBlock == 0 - 1

NoAp == 0 - 1


----------------------------------------------------------------------------
(* Geometry *)

nr_aps_per_pool == APS_PER_POOL

nr_aps == nr_aps_per_pool * NrPools

nr_host_pages_in_blk == NR_HOST_PAGES_IN_FLASH_PAGE * NrPagesPerBlk

nr_blocks == NrPools * NrBlksPerPool

nr_pages == NrPools * NrBlksPerPool * NrPagesPerBlk * NR_HOST_PAGES_IN_FLASH_PAGE

PoolIds == 0 .. (NrPools - 1)

BlockIds == 0 .. (nr_blocks - 1)

ApIds == 0 .. (nr_aps - 1)

PAddrs == 0 .. (nr_pages - 1)

\* the logical address space has one entry per physical page
AllLAddrs == 0 .. (nr_pages - 1)

\* the logical addresses the host of Spec and SpecCore touches
LAddrs == 0 .. (NrLAddrs - 1)

ReqIds == 1 .. NrReqs

BioIds == 1 .. NrBios

Slots == 0 .. (nr_host_pages_in_blk - 1)

\* os->hint_private of a target built without a hint engine
NoHintPrivate == << >>

\* the constructor's arguments of Spec, SpecSeq and SpecCore, whose geometry
\* is the one defined above
DefaultConfig ==
    [ nr_pools |-> NrPools, nr_blks_per_pool |-> NrBlksPerPool,
      nr_pages_per_blk |-> NrPagesPerBlk, nr_aps_per_pool |-> nr_aps_per_pool,
      flags |-> {} ]

\* contents of a flash page: erased, a superseded value, or the newest
\* value the host wrote to logical address l (every host write carries a
\* value different from all earlier ones); DataZero is the zero-filled
\* buffer a read of an unmapped address returns
DataErased == << "erased" >>

DataStale == << "stale" >>

DataZero == << "zero" >>

Fresh(l) == << "fresh", l >>

----------------------------------------------------------------------------
(* Sequence helpers standing for the kernel's list_head operations *)

SeqToSet(s) == { s[i] : i \in 1 .. Len(s) }

InSeq(x, s) == \E i \in 1 .. Len(s) : s[i] = x

\* list_del: unlink x
ListDel(s, x) == SelectSeq(s, LAMBDA y : y # x)

\* list_add_tail: x must not be linked anywhere in s
ListAddTail(s, x) == Append(s, x)

\* list_move_tail: unlink x from wherever it is, then add at the tail
ListMoveTail(s, x) == Append(ListDel(s, x), x)

----------------------------------------------------------------------------
VARIABLES
    trans_map,       \* L -> [addr, block]        primary logical-to-physical map
    rev_trans_map,   \* P -> L or sentinel         reverse map
    blocks,          \* block id -> per-block fields
    pools,           \* pool id -> lists, counter, gate
    aps,             \* append point id -> [cur, gc_cur]
    next_write_ap,   \* round-robin counter
    inflight,        \* logical addresses held by the range lock
    flash,           \* P -> content of the device page
    rq,              \* host request slot -> request
    gc_pending,      \* pools whose GC work item is queued
    gc_wq,           \* kgc_wq: victim blocks whose relocation job is queued
    gc,              \* the relocation job being executed
    programmed,      \* pages programmed since their block was last erased
    bug,             \* "none", or the BUG_ON that stopped the driver
    host,            \* the sequential writer of SpecSeq: its period and progress
    next_collect_pool,  \* the collector's round-robin position, modulo nr_pools
    hint_private,    \* os->hint_private of the hint engine: shadow_map, hintlist
    config           \* the constructor's arguments: geometry and os->config.flags

vars == << trans_map, rev_trans_map, blocks, pools, aps, next_write_ap,
           inflight, flash, rq, gc_pending, gc_wq, gc, programmed, bug, host,
           next_collect_pool, hint_private, config >>

----------------------------------------------------------------------------
(* dm-openssd.h helpers *)

block_pool(b) == b \div NrBlksPerPool

ap_pool(a) == a \div nr_aps_per_pool

block_is_full(bl, b) ==
    (bl[b].next_page * NR_HOST_PAGES_IN_FLASH_PAGE) + bl[b].next_offset
        = nr_host_pages_in_blk

block_to_addr(b) == b * nr_host_pages_in_blk

addr_to_block(p) == p \div nr_host_pages_in_blk

\* the bounds of an atomic_t, a 32-bit int
INT_MAX == 2147483647

INT_MIN == (0 - INT_MAX) - 1

\* atomic_inc_return on an atomic_t: the kernel's atomics wrap
atomic_inc_return(v) == IF v = INT_MAX THEN INT_MIN ELSE v + 1

\* a % b of C for b > 0: the remainder has the sign of a
c_rem(a, b) == IF a >= 0 THEN a % b ELSE 0 - ((0 - (a + b)) % b)

get_next_ap(n) == c_rem(atomic_inc_return(n), nr_aps)

----------------------------------------------------------------------------
(* Block life cycle *)

FreshBlock ==
    [ next_page |-> 0, next_offset |-> 0, nr_invalid_pages |-> 0,
      invalid_pages |-> {}, ap |-> NoAp, gc_running |-> 0,
      data_size |-> 0, data_cmnt_size |-> 0, ref_count |-> 0 ]

\* nvm_reset_block as a function of the block's record
nvm_reset_block(blk) ==
    [ blk EXCEPT !.invalid_pages = {},
                 !.ap = NoAp,
                 !.next_page = 0,
                 !.nr_invalid_pages = 0,
                 !.gc_running = 0,
                 !.data_size = 0,
                 !.data_cmnt_size = 0 ]

\* the block at the head of the pool's free list, NoBlock if the list is empty
FreeHead(pl, p) == IF pl[p].free_list = << >> THEN NoBlock ELSE Head(pl[p].free_list)

\* a get_block that forgets to count the block out
nvm_pool_get_block_lists_nocount(pool) ==
    LET b == Head(pool.free_list) IN
    [ pool EXCEPT !.free_list = Tail(pool.free_list),
                  !.used_list = ListAddTail(pool.used_list, b),
                  !.prio_list = ListAddTail(pool.prio_list, b) ]

\* nvm_pool_get_block, list part: move the head of free_list to the tail of
\* used_list, link it at the tail of prio_list, count it out
nvm_pool_get_block_lists(pool) ==
    LET b == Head(pool.free_list) IN
    [ pool EXCEPT !.free_list = Tail(pool.free_list),
                  !.used_list = ListAddTail(pool.used_list, b),
                  !.prio_list = ListAddTail(pool.prio_list, b),
                  !.nr_free_blocks = pool.nr_free_blocks - 1 ]

\* nvm_pool_get_block, block part: the block is reset and its reference
\* count initialised before it is handed out
nvm_pool_get_block_reset(blk) ==
    [ nvm_reset_block(blk) EXCEPT !.next_offset = 0, !.ref_count = 1 ]

\* a put_block that links the block at the head of free_list
nvm_pool_put_block_head(pool, b) ==
    [ pool EXCEPT !.used_list = ListDel(pool.used_list, b),
                  !.free_list = << b >> \o ListDel(pool.free_list, b),
                  !.nr_free_blocks = pool.nr_free_blocks + 1 ]

\* a put_block that leaves the block linked on used_list
nvm_pool_put_block_keepused(pool, b) ==
    [ pool EXCEPT !.free_list = ListMoveTail(pool.free_list, b),
                  !.nr_free_blocks = pool.nr_free_blocks + 1 ]

\* nvm_pool_put_block: move the block to the tail of free_list, count it in
nvm_pool_put_block(pool, b) ==
    [ pool EXCEPT !.used_list = ListDel(pool.used_list, b),
                  !.free_list = ListMoveTail(pool.free_list, b),
                  !.nr_free_blocks = pool.nr_free_blocks + 1 ]

----------------------------------------------------------------------------
(* Mapping primitives of drivers/vsl/vsl.c *)

\* nvm_alloc_phys_addr: the next page of the block, LTOP_EMPTY when it is full
nvm_alloc_phys_addr(bl, b) ==
    IF block_is_full(bl, b) THEN LTOP_EMPTY
    ELSE block_to_addr(b) + bl[b].next_page

\* an allocation that leaves the cursor where it was
nvm_alloc_phys_addr_blocks_stay(bl, b) == bl

\* ... and the block's cursor afterwards
nvm_alloc_phys_addr_blocks(bl, b) ==
    IF block_is_full(bl, b) THEN bl
    ELSE [ bl EXCEPT ![b].next_page = @ + 1 ]

\* an invalidation that sets the bit without counting the page
invalidate_block_page_nocount(bl, p) ==
    LET b == addr_to_block(p)
        page_offset == p % NrPagesPerBlk
    IN  [ bl EXCEPT ![b].invalid_pages = @ \cup { page_offset } ]

\* invalidate_block_page: set the page's bit (a WARN if it was set already)
\* and count the page as invalid in either case
invalidate_block_page(bl, p) ==
    LET b == addr_to_block(p)
        page_offset == p % NrPagesPerBlk
    IN  [ bl EXCEPT ![b].invalid_pages = @ \cup { page_offset },
                    ![b].nr_invalid_pages = @ + 1 ]

\* nvm_update_map, block side: the superseded page is invalidated
nvm_update_map_blocks(tm, bl, l) ==
    IF tm[l].block # NoBlock THEN invalidate_block_page(bl, tm[l].addr) ELSE bl

\* nvm_update_map, reverse map: the superseded page is poisoned, the new page
\* points back at l
nvm_update_map_rev(tm, rev, l, p) ==
    LET poisoned == IF tm[l].block # NoBlock
                    THEN [ rev EXCEPT ![tm[l].addr] = LTOP_POISON ]
                    ELSE rev
    IN  [ poisoned EXCEPT ![p] = l ]

\* nvm_update_map, primary map
nvm_update_map(tm, l, p, b) == [ tm EXCEPT ![l] = [ addr |-> p, block |-> b ] ]

\* nvm_set_ap_cur: the old current block forgets the append point, the new
\* one is installed
nvm_set_ap_cur_blocks(bl, ap, a, b) ==
    LET old == ap[a].cur
        bl1 == IF old # NoBlock THEN [ bl EXCEPT ![old].ap = NoAp ] ELSE bl
    IN  [ bl1 EXCEPT ![b].ap = a ]

nvm_set_ap_cur(ap, a, b) == [ ap EXCEPT ![a].cur = b ]

----------------------------------------------------------------------------
(* Allocation from an append point (nvm_alloc_addr_from_ap): try the       *)
(* current block; when it is full take a block from the pool, make it the  *)
(* current one and allocate from it; LTOP_EMPTY when the pool has none.    *)

\* TRUE when the append point has to take a new block
NeedsBlock(bl, ap, a) == block_is_full(bl, ap[a].cur)

\* the block the allocation ends up in, NoBlock when it fails
AllocBlock(bl, pl, ap, a) ==
    IF ~NeedsBlock(bl, ap, a) THEN ap[a].cur ELSE FreeHead(pl, ap_pool(a))

nvm_alloc_addr_from_ap_pools(bl, pl, ap, a) ==
    IF NeedsBlock(bl, ap, a) /\ FreeHead(pl, ap_pool(a)) # NoBlock
    THEN [ pl EXCEPT ![ap_pool(a)] = nvm_pool_get_block_lists(@) ]
    ELSE pl

nvm_alloc_addr_from_ap_aps(bl, pl, ap, a) ==
    IF NeedsBlock(bl, ap, a) /\ FreeHead(pl, ap_pool(a)) # NoBlock
    THEN nvm_set_ap_cur(ap, a, FreeHead(pl, ap_pool(a)))
    ELSE ap

nvm_alloc_addr_from_ap_blocks(bl, pl, ap, a) ==
    LET b == AllocBlock(bl, pl, ap, a) IN
    IF b = NoBlock THEN bl
    ELSE IF ~NeedsBlock(bl, ap, a) THEN nvm_alloc_phys_addr_blocks(bl, b)
    ELSE LET got == [ bl EXCEPT ![b] = nvm_pool_get_block_reset(@) ]
             cur == nvm_set_ap_cur_blocks(got, ap, a, b)
         IN  nvm_alloc_phys_addr_blocks(cur, b)

nvm_alloc_addr_from_ap(bl, pl, ap, a) ==
    LET b == AllocBlock(bl, pl, ap, a) IN
    IF b = NoBlock THEN LTOP_EMPTY
    ELSE IF ~NeedsBlock(bl, ap, a) THEN nvm_alloc_phys_addr(bl, b)
    ELSE block_to_addr(b)

----------------------------------------------------------------------------
(* Construction: nvm_pool_init and the map initialisation of vsl_stor_init *)

\* append point j of pool i takes the pool's blocks 2j (cur) and 2j+1 (gc_cur)
InitCur(a) == (ap_pool(a) * NrBlksPerPool) + (2 * (a % nr_aps_per_pool))

InitTaken(p) ==
    [ i \in 1 .. (2 * nr_aps_per_pool) |-> (p * NrBlksPerPool) + (i - 1) ]

InitFree(p) ==
    [ i \in 1 .. (NrBlksPerPool - (2 * nr_aps_per_pool)) |->
        (p * NrBlksPerPool) + (2 * nr_aps_per_pool) + (i - 1) ]

IdleRq == [ pc |-> "idle", op |-> "none", l |-> 0, addr |-> LTOP_EMPTY,
            block |-> NoBlock, data |-> DataZero ]

IdleGc == [ pc |-> "idle", block |-> NoBlock, slot |-> 0, l_addr |-> 0,
            data |-> DataZero ]

\* the state after construction, with request slots reqs
InitWith(reqs) ==
    /\ trans_map = [ l \in AllLAddrs |-> [ addr |-> LTOP_EMPTY, block |-> NoBlock ] ]
    /\ rev_trans_map = [ p \in PAddrs |-> DEADBEEF ]
    /\ blocks = [ b \in BlockIds |->
                    IF \E a \in ApIds : b = InitCur(a)
                    THEN [ FreshBlock EXCEPT !.ref_count = 1,
                             !.ap = CHOOSE a \in ApIds : b = InitCur(a) ]
                    ELSE IF \E a \in ApIds : b = InitCur(a) + 1
                    THEN [ FreshBlock EXCEPT !.ref_count = 1 ]
                    ELSE FreshBlock ]
    /\ pools = [ p \in PoolIds |->
                    [ free_list |-> InitFree(p),
                      used_list |-> InitTaken(p),
                      prio_list |-> InitTaken(p),
                      nr_blocks |-> NrBlksPerPool,
                      nr_free_blocks |-> NrBlksPerPool - (2 * nr_aps_per_pool),
                      is_active |-> 0,
                      waiting_bios |-> << >>,
                      waiting_ws |-> 0 ] ]
    /\ aps = [ a \in ApIds |-> [ cur |-> InitCur(a), gc_cur |-> InitCur(a) + 1 ] ]
    /\ next_write_ap = -1
    /\ inflight = {}
    /\ flash = [ p \in PAddrs |-> DataErased ]
    /\ rq = [ r \in reqs |-> IdleRq ]
    /\ gc_pending = {}
    /\ gc_wq = << >>
    /\ gc = IdleGc
    /\ programmed = {}
    /\ bug = "none"
    /\ next_collect_pool = 0
    /\ hint_private = NoHintPrivate
    /\ config = DefaultConfig

\* Spec and SpecCore have no sequential writer
NoHost == [ period |-> 0, written |-> 0 ]

Init == InitWith(ReqIds) /\ host = NoHost

----------------------------------------------------------------------------
(* The range lock on logical addresses.  The callers are in vsl.c; the     *)
(* lock itself is modelled as the set of locked addresses.                 *)

LAddrRange(l, len) == l .. (l + len - 1)

\* nvm_lock_laddr_range has to wait while any address of the range is held
nvm_lock_laddr_range_waits(infl, l, len) == LAddrRange(l, len) \cap infl # {}

nvm_lock_laddr_range(infl, l, len) == infl \cup LAddrRange(l, len)

nvm_unlock_laddr_range(infl, l, len) == infl \ LAddrRange(l, len)

\* a write path that drops the lock again before the request is submitted
nvm_write_rq_inflight_drop(infl, l, p) == infl

\* __nvm_write_rq: the range is locked before map_page; it is unlocked
\* again only when no page could be mapped, otherwise it stays locked until
\* nvm_endio
nvm_write_rq_inflight(infl, l, p) ==
    IF p = LTOP_EMPTY
    THEN nvm_unlock_laddr_range(nvm_lock_laddr_range(infl, l, 1), l, 1)
    ELSE nvm_lock_laddr_range(infl, l, 1)

\* nvm_endio unlocks the range of the request, pb->l_addr
nvm_endio_inflight(infl, l_addr) == nvm_unlock_laddr_range(infl, l_addr, 1)

----------------------------------------------------------------------------
(* Host write: vsl_queue_rq -> nvm_write_rq -> __nvm_write_rq(is_gc = 0)   *)

\* a kick that queues no pool's work item
nvm_gc_kick_none == {}

\* nvm_gc_kick: queue the GC work item of every pool
nvm_gc_kick == PoolIds

\* the newest value of l is superseded everywhere once the host writes l again
Supersede(f, l) == [ p \in DOMAIN f |-> IF f[p] = Fresh(l) THEN DataStale ELSE f[p] ]

nvm_write_rq(r, l) ==
    /\ bug = "none"
    /\ rq[r].pc = "idle"
    /\ next_write_ap < MaxAlloc
    /\ ~nvm_lock_laddr_range_waits(inflight, l, 1)
    /\ LET a == get_next_ap(next_write_ap)
           p == nvm_alloc_addr_from_ap(blocks, pools, aps, a)
           b == AllocBlock(blocks, pools, aps, a)
           bl1 == nvm_alloc_addr_from_ap_blocks(blocks, pools, aps, a)
       IN  /\ next_write_ap' = next_write_ap + 1
           /\ pools' = nvm_alloc_addr_from_ap_pools(blocks, pools, aps, a)
           /\ aps' = nvm_alloc_addr_from_ap_aps(blocks, pools, aps, a)
           /\ inflight' = nvm_write_rq_inflight(inflight, l, p)
           /\ IF p = LTOP_EMPTY
              THEN \* no page: unlock, kick the collector, BLK_MQ_RQ_QUEUE_BUSY
                   /\ gc_pending' = gc_pending \cup nvm_gc_kick
                   /\ blocks' = bl1
                   /\ UNCHANGED << trans_map, rev_trans_map, flash, rq,
                                   gc, programmed >>
              ELSE /\ blocks' = nvm_update_map_blocks(trans_map, bl1, l)
                   /\ rev_trans_map' = nvm_update_map_rev(trans_map, rev_trans_map, l, p)
                   /\ trans_map' = nvm_update_map(trans_map, l, p, b)
                   /\ rq' = [ rq EXCEPT ![r] = [ pc |-> "submitted", op |-> "write",
                                 l |-> l, addr |-> p, block |-> b, data |-> Fresh(l) ] ]
                   /\ flash' = Supersede(flash, l)
                   /\ gc' = IF gc.data = Fresh(l) THEN [ gc EXCEPT !.data = DataStale ] ELSE gc
                   /\ programmed' = programmed \cup { p }
                   /\ UNCHANGED gc_pending
    /\ UNCHANGED << gc_wq, bug,
                    next_collect_pool, hint_private, config >>

\* a write of the host of Spec
WriteRq(r, l) == nvm_write_rq(r, l) /\ UNCHANGED host

\* a kref_put that queues the job whatever references are left
kref_put_wq_always(bl, wq, b) == Append(wq, b)

\* kref_put(&block->ref_count, nvm_block_release): the job is queued on
\* kgc_wq when the last reference goes
kref_put_wq(bl, wq, b) == IF bl[b].ref_count - 1 = 0 THEN Append(wq, b) ELSE wq

\* kref_put: the reference goes, and with the last one the block's
\* relocation job is queued on kgc_wq
openssd_put_block(bl, b) == [ bl EXCEPT ![b].ref_count = @ - 1 ]

\* device completion and nvm_endio; a read drops the reference its lookup took
Complete(r) ==
    /\ bug = "none"
    /\ rq[r].pc = "submitted"
    /\ inflight' = nvm_endio_inflight(inflight, rq[r].l)
    /\ IF rq[r].op = "write"
       THEN /\ flash' = [ flash EXCEPT ![rq[r].addr] = rq[r].data ]
            /\ blocks' = [ blocks EXCEPT ![rq[r].block].data_cmnt_size = @ + 1 ]
            /\ rq' = [ rq EXCEPT ![r] = IdleRq ]
            /\ UNCHANGED gc_wq
       ELSE /\ rq' = [ rq EXCEPT ![r] = [ IdleRq EXCEPT !.op = "read", !.l = rq[r].l,
                        \* nvm_read_rq sets rq->__sector = 0 for an entry
                        \* without a block: the device reads its first page
                        !.data = IF rq[r].block = NoBlock THEN flash[0]
                                 ELSE flash[rq[r].addr] ] ]
            /\ blocks' = IF rq[r].block = NoBlock THEN blocks
                         ELSE openssd_put_block(blocks, rq[r].block)
            /\ gc_wq' = IF rq[r].block = NoBlock THEN gc_wq
                        ELSE kref_put_wq(blocks, gc_wq, rq[r].block)
            /\ UNCHANGED flash
    /\ UNCHANGED << trans_map, rev_trans_map, pools, aps, next_write_ap,
                    gc_pending, gc, programmed, bug, host,
                    next_collect_pool, hint_private, config >>

----------------------------------------------------------------------------
(* Host read: vsl_queue_rq -> nvm_read_rq, with the lookup_ltop of the     *)
(* round-robin target                                                      *)

\* lookup_ltop on a mapped entry takes a reference on its block
lookup_ltop_blocks(bl, b) == [ bl EXCEPT ![b].ref_count = @ + 1 ]

\* lookup_ltop hands out no entry while the entry's block is being collected
lookup_ltop_fails(bl, b) == b # NoBlock /\ bl[b].gc_running # 0

\* a read that keeps the range locked while lookup_ltop hands out no entry
ReadRq_locked(r, l) ==
    /\ bug = "none"
    /\ rq[r].pc = "idle"
    /\ ~nvm_lock_laddr_range_waits(inflight, l, 1)
    /\ LET p == trans_map[l] IN
       IF lookup_ltop_fails(blocks, p.block)
       THEN /\ inflight' = nvm_lock_laddr_range(inflight, l, 1)
            /\ gc_pending' = gc_pending \cup nvm_gc_kick
            /\ UNCHANGED << rq, blocks >>
       ELSE /\ inflight' = nvm_lock_laddr_range(inflight, l, 1)
            /\ rq' = [ rq EXCEPT ![r] = [ pc |-> "submitted", op |-> "read", l |-> l,
                          addr |-> p.addr, block |-> p.block, data |-> DataZero ] ]
            /\ blocks' = IF p.block = NoBlock THEN blocks
                         ELSE lookup_ltop_blocks(blocks, p.block)
            /\ UNCHANGED gc_pending
    /\ UNCHANGED << trans_map, rev_trans_map, pools, aps, next_write_ap, flash,
                    gc_wq, gc, programmed, bug, host,
                    next_collect_pool, hint_private, config >>

\* nvm_read_rq: lock, look up; without an entry unlock, kick the collector
\* and answer BLK_MQ_RQ_QUEUE_BUSY, otherwise the request goes to the device
ReadRq(r, l) ==
    /\ bug = "none"
    /\ rq[r].pc = "idle"
    /\ ~nvm_lock_laddr_range_waits(inflight, l, 1)
    /\ LET p == trans_map[l] IN
       IF lookup_ltop_fails(blocks, p.block)
       THEN /\ inflight' = nvm_unlock_laddr_range(nvm_lock_laddr_range(inflight, l, 1), l, 1)
            /\ gc_pending' = gc_pending \cup nvm_gc_kick
            /\ UNCHANGED << rq, blocks >>
       ELSE /\ inflight' = nvm_lock_laddr_range(inflight, l, 1)
            /\ rq' = [ rq EXCEPT ![r] = [ pc |-> "submitted", op |-> "read", l |-> l,
                          addr |-> p.addr, block |-> p.block, data |-> DataZero ] ]
            /\ blocks' = IF p.block = NoBlock THEN blocks
                         ELSE lookup_ltop_blocks(blocks, p.block)
            /\ UNCHANGED gc_pending
    /\ UNCHANGED << trans_map, rev_trans_map, pools, aps, next_write_ap, flash,
                    gc_wq, gc, programmed, bug, host,
                    next_collect_pool, hint_private, config >>

----------------------------------------------------------------------------
(* Garbage collection: nvm_gc_collect selects victims, nvm_gc_block        *)
(* relocates, erases and returns one victim                                *)

block_max_invalid_last(bl, a, b) ==
    IF bl[a].nr_invalid_pages <= bl[b].nr_invalid_pages THEN b ELSE a

block_max_invalid(bl, a, b) ==
    IF bl[a].nr_invalid_pages = bl[b].nr_invalid_pages THEN a
    ELSE IF bl[a].nr_invalid_pages < bl[b].nr_invalid_pages THEN b ELSE a

\* list_for_each_entry(block, list, prio) max = block_max_invalid(max, block);
\* each round's max is a value of its own (m), as the C variable is
RECURSIVE FindMaxFrom(_, _, _, _)
FindMaxFrom(bl, list, i, max) ==
    IF i > Len(list) THEN max
    ELSE CHOOSE r \in { FindMaxFrom(bl, list, i + 1, m) :
                          m \in { block_max_invalid(bl, max, list[i]) } } : TRUE

\* block_prio_find_max: linear scan of a non-empty prio_list
block_prio_find_max(bl, list) == FindMaxFrom(bl, list, 1, list[1])

\* the state nvm_gc_collect's loop works on
GcLoopState(bl, prio, wq, b) == [ blocks |-> bl, prio |-> prio, wq |-> wq, bug |-> b ]

RECURSIVE nvm_gc_collect_loop(_, _, _)
nvm_gc_collect_loop(st, nr_blocks_need, nr_free_blocks) ==
    IF ~(nr_blocks_need > nr_free_blocks /\ st.prio # << >>) THEN st
    ELSE LET b == block_prio_find_max(st.blocks, st.prio) IN
         IF st.blocks[b].nr_invalid_pages = 0 THEN st
         ELSE IF ~block_is_full(st.blocks, b)
              THEN [ st EXCEPT !.prio = ListDel(st.prio, b), !.bug = "gc_block_not_full" ]
         ELSE IF st.blocks[b].gc_running + 1 # 1
              THEN [ st EXCEPT !.prio = ListDel(st.prio, b), !.bug = "gc_running",
                               !.blocks[b].gc_running = @ + 1 ]
         ELSE \* the next round works on the state this round leaves (nxt)
              CHOOSE r \in { nvm_gc_collect_loop(nxt, nr_blocks_need, nr_free_blocks) :
                    nxt \in { GcLoopState(
                       [ st.blocks EXCEPT ![b].gc_running = @ + 1, ![b].ref_count = @ - 1 ],
                       ListDel(st.prio, b),
                       kref_put_wq(st.blocks, st.wq, b),
                       st.bug) } } : TRUE

nvm_gc_collect(p) ==
    /\ bug = "none"
    /\ p \in gc_pending
    /\ \E st \in { nvm_gc_collect_loop(
                        GcLoopState(blocks, pools[p].prio_list, gc_wq, "none"),
                        pools[p].nr_blocks \div GC_LIMIT_INVERSE,
                        pools[p].nr_free_blocks) } :
           /\ blocks' = st.blocks
           /\ pools' = [ pools EXCEPT ![p].prio_list = st.prio ]
           /\ gc_wq' = st.wq
           /\ bug' = st.bug
    /\ gc_pending' = gc_pending \ { p }
    /\ UNCHANGED << trans_map, rev_trans_map, aps, next_write_ap, inflight, flash,
                    rq, gc, programmed, host, hint_private, config >>
    /\ next_collect_pool' = (next_collect_pool + 1) % NrPools

\* find_first_zero_bit over the victim's bitmap; nr_host_pages_in_blk if none
find_first_zero_bit(bits) ==
    IF Slots \subseteq bits THEN nr_host_pages_in_blk
    ELSE CHOOSE s \in Slots \ bits : \A t \in Slots \ bits : s <= t

BlockPages(b) == { block_to_addr(b) + s : s \in Slots }

\* __erase_block: the device erases the block's pages
erase_block(f, b) == [ p \in DOMAIN f |-> IF p \in BlockPages(b) THEN DataErased ELSE f[p] ]

\* one round of nvm_move_valid_pages' loop on victim b: read the first page
\* that is not invalid, or, when none is left, erase the block and put it back
MoveNext(b) ==
    LET slot == find_first_zero_bit(blocks[b].invalid_pages) IN
    IF slot < nr_host_pages_in_blk
    THEN /\ gc' = [ pc |-> "lookup", block |-> b, slot |-> slot, l_addr |-> 0,
                    data |-> flash[block_to_addr(b) + slot] ]
         /\ UNCHANGED << flash, pools, programmed >>
    ELSE /\ gc' = IdleGc
         /\ flash' = erase_block(flash, b)
         /\ programmed' = programmed \ BlockPages(b)
         /\ pools' = [ pools EXCEPT ![block_pool(b)] = nvm_pool_put_block(@, b) ]

\* the worker of kgc_wq takes the next job: nvm_gc_block
nvm_gc_block ==
    /\ bug = "none"
    /\ gc.pc = "idle"
    /\ gc_wq # << >>
    /\ gc_wq' = Tail(gc_wq)
    /\ MoveNext(Head(gc_wq))
    /\ UNCHANGED << trans_map, rev_trans_map, blocks, aps, next_write_ap, inflight,
                    rq, gc_pending, bug, host,
                    next_collect_pool, hint_private, config >>

\* nvm_move_valid_pages after the synchronous read: lookup_ptol
GcLookup ==
    /\ bug = "none"
    /\ gc.pc = "lookup"
    /\ gc' = [ gc EXCEPT !.pc = "write",
                         !.l_addr = rev_trans_map[block_to_addr(gc.block) + gc.slot] ]
    /\ UNCHANGED << trans_map, rev_trans_map, blocks, pools, aps, next_write_ap,
                    inflight, flash, rq, gc_pending, gc_wq, programmed, bug, host,
                    next_collect_pool, hint_private, config >>

\* nvm_write_execute_bio(is_gc = 1): the write path __nvm_write_rq on l_addr
GcWrite ==
    /\ bug = "none"
    /\ gc.pc = "write"
    /\ IF gc.l_addr \notin AllLAddrs
       THEN \* BUG_ON(l_addr >= s->nr_pages) in nvm_update_map
            /\ bug' = "nvm_update_map"
            /\ UNCHANGED << trans_map, rev_trans_map, blocks, pools, aps,
                            next_write_ap, inflight, gc, programmed >>
       ELSE /\ ~nvm_lock_laddr_range_waits(inflight, gc.l_addr, 1)
            /\ LET l == gc.l_addr
                   a == get_next_ap(next_write_ap)
                   p == nvm_alloc_addr_from_ap(blocks, pools, aps, a)
                   b == AllocBlock(blocks, pools, aps, a)
                   bl1 == nvm_alloc_addr_from_ap_blocks(blocks, pools, aps, a)
               IN  /\ next_write_ap' = next_write_ap + 1
                   /\ pools' = nvm_alloc_addr_from_ap_pools(blocks, pools, aps, a)
                   /\ aps' = nvm_alloc_addr_from_ap_aps(blocks, pools, aps, a)
                   /\ IF p = LTOP_EMPTY
                      THEN \* BUG_ON(is_gc), with the range still locked
                           /\ bug' = "gc_out_of_space"
                           /\ blocks' = bl1
                           /\ inflight' = nvm_lock_laddr_range(inflight, l, 1)
                           /\ UNCHANGED << trans_map, rev_trans_map, gc,
                                           programmed >>
                      ELSE /\ blocks' = nvm_update_map_blocks(trans_map, bl1, l)
                           /\ rev_trans_map' =
                                 nvm_update_map_rev(trans_map, rev_trans_map, l, p)
                           /\ trans_map' = nvm_update_map(trans_map, l, p, b)
                           /\ inflight' = nvm_write_rq_inflight(inflight, l, p)
                           /\ gc' = [ gc EXCEPT !.pc = "wait", !.slot = p ]
                           /\ programmed' = programmed \cup { p }
                           /\ bug' = bug
    /\ UNCHANGED << flash, rq, gc_pending, gc_wq, host,
                    next_collect_pool, hint_private, config >>

\* completion of the relocation write (nvm_endio), then the next round of
\* nvm_move_valid_pages' loop
GcComplete ==
    /\ bug = "none"
    /\ gc.pc = "wait"
    /\ inflight' = nvm_endio_inflight(inflight, gc.l_addr)
    /\ LET dst == gc.slot
           bl1 == [ blocks EXCEPT ![addr_to_block(dst)].data_cmnt_size = @ + 1 ]
           slot == find_first_zero_bit(blocks[gc.block].invalid_pages)
           f1 == [ flash EXCEPT ![dst] = gc.data ]
       IN  /\ blocks' = bl1
           /\ IF slot < nr_host_pages_in_blk
              THEN /\ gc' = [ pc |-> "lookup", block |-> gc.block, slot |-> slot,
                              l_addr |-> 0, data |-> f1[block_to_addr(gc.block) + slot] ]
                   /\ flash' = f1
                   /\ UNCHANGED << pools, programmed >>
              ELSE /\ gc' = IdleGc
                   /\ flash' = erase_block(f1, gc.block)
                   /\ programmed' = programmed \ BlockPages(gc.block)
                   /\ pools' = [ pools EXCEPT ![block_pool(gc.block)] =
                                    nvm_pool_put_block(@, gc.block) ]
    /\ UNCHANGED << trans_map, rev_trans_map, aps, next_write_ap, rq, gc_pending,
                    gc_wq, bug, host,
                    next_collect_pool, hint_private, config >>

\* sectors per exposed page
NR_PHY_IN_LOG == EXPOSED_PAGE_SIZE \div 512

\* the sectors around the end of the device at which a request may start:
\* the last sector of the last page, and the two after it
EdgeSectors ==
    { (nr_pages * NR_PHY_IN_LOG) - 1, nr_pages * NR_PHY_IN_LOG,
      (nr_pages * NR_PHY_IN_LOG) + 1 }

\* vsl_queue_rq's address check
vsl_queue_rq_illegal(sector) == sector \div NR_PHY_IN_LOG >= nr_pages

\* a check that lets the request through
vsl_queue_rq_status_ok(req) == [ req EXCEPT !.pc = "submitted" ]

\* ... and what the request is left with: BLK_MQ_RQ_QUEUE_ERROR
vsl_queue_rq_status(req) == [ req EXCEPT !.op = "error" ]

\* vsl_queue_rq for a request outside the device
vsl_queue_rq_error(r, sector) ==
    /\ bug = "none"
    /\ rq[r].pc = "idle"
    /\ vsl_queue_rq_illegal(sector)
    /\ rq' = [ rq EXCEPT ![r] = vsl_queue_rq_status(IdleRq) ]
    /\ UNCHANGED << trans_map, rev_trans_map, blocks, pools, aps, next_write_ap,
                    inflight, flash, gc_pending, gc_wq, gc, programmed, bug, host,
                    next_collect_pool, hint_private, config >>

Next ==
    \/ \E r \in ReqIds, l \in LAddrs : WriteRq(r, l)
    \/ \E r \in ReqIds, l \in LAddrs : ReadRq(r, l)
    \/ \E r \in ReqIds, sector \in EdgeSectors : vsl_queue_rq_error(r, sector)
    \/ \E r \in ReqIds : Complete(r)
    \/ \E p \in PoolIds : nvm_gc_collect(p)
    \/ nvm_gc_block
    \/ GcLookup
    \/ GcWrite
    \/ GcComplete

Spec == Init /\ [][Next]_vars

-----------------------------------------------------------------------------
(* SpecSeq: the same driver under a host that writes a window of logical   *)
(* addresses over and over in ascending order (a log, a circular file),    *)
(* with the workqueues and the device running: a queued GC work item is    *)
(* executed and a submitted request is completed.                          *)

\* pages of the pool that are not in a block reserved as gc_cur
HostPages == nr_pages - nr_aps * nr_host_pages_in_blk

\* the window sizes the host may use: it never holds more live data than
\* there are pages outside the reserved blocks
SeqPeriods == 1 .. (HostPages - 1)

\* the address of the host's next write
SeqLAddr == host.written % host.period

\* vsl_queue_rq for the next write of the sequence; a request answered
\* BLK_MQ_RQ_QUEUE_BUSY is queued again, so the sequence only advances when
\* the write was mapped
SeqWrite(r) ==
    /\ nvm_write_rq(r, SeqLAddr)
    /\ host' = IF rq'[r].pc = "submitted"
               THEN [ host EXCEPT !.written = @ + 1 ]
               ELSE host

InitSeq == InitWith(ReqIds) /\ host \in [ period : SeqPeriods, written : { 0 } ]

NextSeq ==
    \/ \E r \in ReqIds : SeqWrite(r)
    \/ \E r \in ReqIds : Complete(r)
    \/ \E p \in PoolIds : nvm_gc_collect(p)
    \/ nvm_gc_block
    \/ GcLookup
    \/ GcWrite
    \/ GcComplete

\* kbiod_wq and kgc_wq run their work items, the device completes what was
\* submitted to it
FairSeq ==
    /\ \A r \in ReqIds : WF_vars(Complete(r))
    /\ \A p \in PoolIds : WF_vars(nvm_gc_collect(p))
    /\ WF_vars(nvm_gc_block)
    /\ WF_vars(GcLookup)
    /\ WF_vars(GcWrite)
    /\ WF_vars(GcComplete)

SpecSeq == InitSeq /\ [][NextSeq]_vars /\ FairSeq

----------------------------------------------------------------------------
(* The request path of drivers/md/dm-openssd-core.c.  SpecCore follows it  *)
(* with NVM_OPT_POOL_SERIALIZE set, from the same initial state, up to the *)
(* first allocation that finds no page: there the driver enters            *)
(* openssd_gc_collect, which SpecCore does not follow.                     *)

\* config.flags & NVM_OPT_POOL_SERIALIZE
NVM_OPT_POOL_SERIALIZE == TRUE

\* block_to_ap: the append point a block's requests are accounted to
block_to_ap(b) ==
    (b \div NrBlksPerPool)
        + ((b % NrBlksPerPool) \div (NrBlksPerPool \div nr_aps_per_pool))

\* openssd_update_map_generic, block side: the page the entry leaves gets its
\* bit set and is counted
openssd_update_map_generic_blocks(tm, bl, l) ==
    IF tm[l].block # NoBlock
    THEN LET page_offset == tm[l].addr % nr_host_pages_in_blk IN
         [ bl EXCEPT ![tm[l].block].invalid_pages = @ \cup { page_offset },
                     ![tm[l].block].nr_invalid_pages = @ + 1 ]
    ELSE bl

\* openssd_update_map_generic, reverse map: only the new page is written
openssd_update_map_generic_rev(rev, l, p) == [ rev EXCEPT ![p] = l ]

\* openssd_update_map_generic, primary map
openssd_update_map_generic(tm, l, p, b) ==
    [ tm EXCEPT ![l] = [ addr |-> p, block |-> b ] ]

\* openssd_submit_bio, gate: with the pool active the bio is added to
\* waiting_bios, otherwise the pool becomes active
openssd_submit_bio_gate(pool, r) ==
    IF NVM_OPT_POOL_SERIALIZE /\ pool.is_active # 0
    THEN [ pool EXCEPT !.waiting_bios = Append(@, r) ]
    ELSE [ pool EXCEPT !.is_active = 1 ]

\* a bio that is linked on some pool's waiting_bios
Waiting(r) == \E p \in PoolIds : InSeq(r, pools[p].waiting_bios)

\* openssd_write_bio_generic: allocate and map (openssd_alloc_addr_retries,
\* openssd_alloc_map_ltop_rr), copy the page into the block's buffer, issue
\* the device write (openssd_submit_write) and end the host bio
openssd_write_bio_generic(r, l) ==
    /\ bug = "none"
    /\ rq[r].pc = "idle" /\ ~Waiting(r)
    /\ next_write_ap < MaxCoreAlloc
    /\ LET a == get_next_ap(next_write_ap)
           p == nvm_alloc_addr_from_ap(blocks, pools, aps, a)
           b == AllocBlock(blocks, pools, aps, a)
           bl1 == nvm_alloc_addr_from_ap_blocks(blocks, pools, aps, a)
           pl1 == nvm_alloc_addr_from_ap_pools(blocks, pools, aps, a)
       IN  /\ next_write_ap' = next_write_ap + 1
           /\ aps' = nvm_alloc_addr_from_ap_aps(blocks, pools, aps, a)
           /\ IF p = LTOP_EMPTY
              THEN /\ bug' = "openssd_gc_collect"
                   /\ blocks' = bl1
                   /\ pools' = pl1
                   /\ UNCHANGED << trans_map, rev_trans_map, flash, rq, programmed >>
              ELSE /\ blocks' = [ openssd_update_map_generic_blocks(trans_map, bl1, l)
                                    EXCEPT ![b].data_size = @ + 1 ]
                   /\ rev_trans_map' = openssd_update_map_generic_rev(rev_trans_map, l, p)
                   /\ trans_map' = openssd_update_map_generic(trans_map, l, p, b)
                   /\ pools' = [ pl1 EXCEPT ![ap_pool(block_to_ap(b))] =
                                    openssd_submit_bio_gate(@, r) ]
                   /\ rq' = [ rq EXCEPT ![r] =
                                 \* submit_bio runs on either branch of the gate
                                 [ pc |-> "submitted",
                                   op |-> "write", l |-> l, addr |-> p,
                                   block |-> b, data |-> Fresh(l) ] ]
                   /\ flash' = Supersede(flash, l)
                   /\ programmed' = programmed \cup { p }
                   /\ bug' = bug
    /\ UNCHANGED << inflight, gc_pending, gc_wq, gc, host,
                    next_collect_pool, hint_private, config >>

\* openssd_lookup_ltop waits while the gc_lock of the entry's block is held
openssd_lookup_ltop_waits(bl, b) == b # NoBlock /\ bl[b].gc_running # 0

\* openssd_read_bio_generic: look the entry up; an unmapped address is
\* answered with zeroes at once, otherwise the lookup has taken a reference
\* on the block and the bio goes through openssd_submit_bio
openssd_read_bio_generic(r, l) ==
    /\ bug = "none"
    /\ rq[r].pc = "idle" /\ ~Waiting(r)
    /\ LET p == trans_map[l] IN
       /\ ~openssd_lookup_ltop_waits(blocks, p.block)
       /\ IF p.block = NoBlock
          THEN /\ rq' = [ rq EXCEPT ![r] = [ IdleRq EXCEPT !.op = "read", !.l = l,
                                                          !.data = DataZero ] ]
               /\ UNCHANGED << blocks, pools >>
          ELSE /\ blocks' = lookup_ltop_blocks(blocks, p.block)
               /\ pools' = [ pools EXCEPT ![ap_pool(block_to_ap(p.block))] =
                                openssd_submit_bio_gate(@, r) ]
               /\ rq' = [ rq EXCEPT ![r] = [ pc |-> "submitted", op |-> "read", l |-> l,
                             addr |-> p.addr, block |-> p.block, data |-> DataZero ] ]
    /\ UNCHANGED << trans_map, rev_trans_map, aps, next_write_ap, inflight, flash,
                    gc_pending, gc_wq, gc, programmed, bug, host,
                    next_collect_pool, hint_private, config >>

\* openssd_endio, gate: with bios waiting the pool's work item is queued,
\* otherwise the pool stops being active
openssd_endio_gate(pool) ==
    IF pool.waiting_bios # << >>
    THEN [ pool EXCEPT !.waiting_ws = 1 ]
    ELSE [ pool EXCEPT !.is_active = 0 ]

\* the device completes bio r: openssd_endio
openssd_endio(r) ==
    /\ bug = "none"
    /\ rq[r].pc = "submitted"
    /\ blocks' = openssd_put_block(blocks, rq[r].block)
    /\ pools' = [ pools EXCEPT ![ap_pool(block_to_ap(rq[r].block))] =
                     openssd_endio_gate(@) ]
    /\ IF rq[r].op = "write"
       THEN /\ flash' = [ flash EXCEPT ![rq[r].addr] = rq[r].data ]
            /\ rq' = [ rq EXCEPT ![r] = IdleRq ]
       ELSE /\ rq' = [ rq EXCEPT ![r] = [ IdleRq EXCEPT !.op = "read", !.l = rq[r].l,
                                                       !.data = flash[rq[r].addr] ] ]
            /\ UNCHANGED flash
    /\ UNCHANGED << trans_map, rev_trans_map, aps, next_write_ap, inflight,
                    gc_pending, gc_wq, gc, programmed, bug, host,
                    next_collect_pool, hint_private, config >>

\* openssd_delayed_bio_submit: the pool's work item pops the first waiting
\* bio and passes it to generic_make_request.  The bio was handed to the
\* device when it was queued, so this is a second submission of a bio that
\* is in flight or already ended; the driver's state is undefined from here
openssd_delayed_bio_submit(p) ==
    /\ bug = "none"
    /\ pools[p].waiting_ws = 1
    /\ pools' = [ pools EXCEPT ![p].waiting_ws = 0,
                               ![p].waiting_bios = Tail(@) ]
    /\ bug' = "generic_make_request"
    /\ UNCHANGED << trans_map, rev_trans_map, blocks, aps, next_write_ap, inflight,
                    flash, rq, gc_pending, gc_wq, gc, programmed, host,
                    next_collect_pool, hint_private, config >>

InitCore == InitWith(BioIds) /\ host = NoHost

NextCore ==
    \/ \E r \in BioIds, l \in LAddrs : openssd_write_bio_generic(r, l)
    \/ \E r \in BioIds, l \in LAddrs : openssd_read_bio_generic(r, l)
    \/ \E r \in BioIds : openssd_endio(r)
    \/ \E p \in PoolIds : openssd_delayed_bio_submit(p)

SpecCore == InitCore /\ [][NextCore]_vars

----------------------------------------------------------------------------
(* Properties of Spec *)

\* no host request, relocation or map update is in progress
Quiescent == (\A r \in DOMAIN rq : rq[r].pc = "idle") /\ gc.pc = "idle"

\* the reverse entry of p holds a logical address
RevInUse(p) == rev_trans_map[p] \notin { LTOP_POISON, DEADBEEF, LTOP_EMPTY }

\* C1: at a quiescent moment the two maps are inverse to each other: every
\* mapped logical address L has reverse[primary[L].addr] = L, and every
\* physical page P whose reverse entry is neither the poison nor the initial
\* pattern has primary[reverse[P]].addr = P
C1_MapBijection ==
    Quiescent =>
       /\ \A l \in DOMAIN trans_map :
             trans_map[l].block # NoBlock => rev_trans_map[trans_map[l].addr] = l
       /\ \A p \in PAddrs :
             RevInUse(p) =>
                /\ rev_trans_map[p] \in DOMAIN trans_map
                /\ trans_map[rev_trans_map[p]].addr = p

PoolBlocks(p) == { b \in BlockIds : block_pool(b) = p }

\* C3: every block of a pool is on exactly one of free_list and used_list,
\* once, and every block on prio_list is on used_list
C3_ListExclusive ==
    \A p \in PoolIds :
       /\ SeqToSet(pools[p].free_list) \cap SeqToSet(pools[p].used_list) = {}
       /\ SeqToSet(pools[p].free_list) \cup SeqToSet(pools[p].used_list) = PoolBlocks(p)
       /\ Len(pools[p].free_list) + Len(pools[p].used_list) = Cardinality(PoolBlocks(p))
       /\ SeqToSet(pools[p].prio_list) \subseteq SeqToSet(pools[p].used_list)

\* the first block handed out at construction was collected and put back,
\* while other blocks wait on prio_list
C3_Witness ==
    /\ InSeq(InitCur(0), pools[0].free_list)
    /\ pools[0].prio_list # << >>

\* C4: nr_free_blocks of every pool is the length of its free_list
C4_FreeCount ==
    \A p \in PoolIds : pools[p].nr_free_blocks = Len(pools[p].free_list)

\* blocks have left the free list and a collected one has re-entered it
C4_Witness ==
    \E p \in PoolIds :
       /\ pools[p].nr_free_blocks > 0
       /\ \E i \in 1 .. Len(pools[p].free_list) :
             blocks[pools[p].free_list[i]].gc_running = 1

\* C5: a write (of the host or of a relocation) that maps L takes a page that
\* was not programmed since its block was last erased; in particular it is
\* not the page of the previous write to L unless that page's block was
\* erased in between
C5_OutOfPlace ==
    [][ \A l \in DOMAIN trans_map :
          (next_write_ap' # next_write_ap /\ l \in inflight' /\ l \notin inflight) =>
             /\ trans_map'[l].addr \notin programmed
             /\ (trans_map[l].block # NoBlock /\ trans_map[l].addr \in programmed) =>
                   trans_map'[l].addr # trans_map[l].addr ]_vars

\* a host write was mapped into a block that was erased and taken again: the
\* first block of the pool is back at the tail of used_list
C5_Witness ==
    \E r \in ReqIds :
       /\ rq[r].pc = "submitted" /\ rq[r].op = "write"
       /\ rq[r].block = InitCur(0)
       /\ pools[0].used_list # << >>
       /\ pools[0].used_list[Len(pools[0].used_list)] = InitCur(0)

\* C6: a read of L that completes after a write to L returns the value of the
\* newest write to L
C6_ReadAfterWrite ==
    [][ \A r \in ReqIds :
          ( /\ rq[r].pc = "submitted" /\ rq[r].op = "read"
            /\ rq'[r].pc = "idle"
            /\ trans_map[rq[r].l].block # NoBlock )
          => rq'[r].data = Fresh(rq[r].l) ]_vars

\* the operations that are between lock_laddr_range and unlock_laddr_range of l
HostHolders(l) == { r \in DOMAIN rq : rq[r].pc = "submitted" /\ rq[r].l = l }

GcHolders(l) == IF gc.pc = "wait" /\ gc.l_addr = l THEN { 0 } ELSE {}

----------------------------------------------------------------------------
(* Properties of SpecCore *)

\* the bios of pool p that were forwarded to the device and have not ended
Forwarded(p) ==
    { r \in DOMAIN rq : rq[r].pc = "submitted" /\ rq[r].block # NoBlock
                          /\ ap_pool(block_to_ap(rq[r].block)) = p }

\* C7: with NVM_OPT_POOL_SERIALIZE set at most one bio per pool is forwarded
\* to the device and not yet ended
C7_OneInFlightPerPool ==
    NVM_OPT_POOL_SERIALIZE => \A p \in PoolIds : Cardinality(Forwarded(p)) <= 1

-----------------------------------------------------------------------------
(* SpecV0: the first generation of the driver (part_000), on a geometry of *)
(* its own: round-robin mapping of host writes and the collector thread.   *)
(* spin_is_locked() and a spin_lock() of a lock that is held depend on the *)
(* build: constant 0 and no effect on a uniprocessor kernel, true and a    *)
(* deadlock otherwise (smp).                                               *)

GC_LIMIT_INVERSE_V0 == 2

PoolIdsV0 == 0 .. (NrPoolsV0 - 1)

BlockIdsV0 == 0 .. (NrPoolsV0 * NrBlksPerPoolV0 - 1)

\* os->nr_pages = POOL_COUNT * POOL_BLOCK_COUNT * BLOCK_PAGE_COUNT
nr_pages_v0 == NrPoolsV0 * NrBlksPerPoolV0 * NrPagesPerBlkV0

\* block->parent, by the block ids openssd_pool_init hands out
block_parent(b) == b \div NrBlksPerPoolV0

block_to_addr_v0(b) == b * NrPagesPerBlkV0

\* openssd_reset_block (part_000) as a function of the block's record
openssd_reset_block_v0(blk) == [ blk EXCEPT !.next_page = -1 ]

\* openssd_pool_get_block on a pool with a free block
openssd_pool_get_block(pool) ==
    [ pool EXCEPT !.free_list = Tail(@),
                  !.used_list = ListMoveTail(@, Head(pool.free_list)),
                  !.nr_free_blocks = @ - 1 ]

\* openssd_pool_put_block's effect on the pool: block->list is moved to the
\* tail of free_list from whichever of the two lists it is on
openssd_pool_put_block(pool, b) ==
    [ pool EXCEPT !.used_list = ListDel(@, b),
                  !.free_list = ListMoveTail(@, b),
                  !.nr_free_blocks = @ + 1 ]

\* list_sort with block_prio_sort_cmp: stable, most invalid pages first
list_sort_prio(bl, list) ==
    LET n == Len(list)
        before(i, j) ==
            \/ bl[list[i]].nr_invalid_pages > bl[list[j]].nr_invalid_pages
            \/ /\ bl[list[i]].nr_invalid_pages = bl[list[j]].nr_invalid_pages
               /\ i < j
        pos(i) == 1 + Cardinality({ j \in 1 .. n : before(j, i) })
    IN  [ k \in 1 .. n |-> list[CHOOSE i \in 1 .. n : pos(i) = k] ]

\* the state after openssd_ctr and openssd_pool_init
InitV0 ==
    /\ trans_map = [ l \in 0 .. (nr_pages_v0 - 1) |-> [ addr |-> 0, block |-> NoBlock ] ]
    /\ rev_trans_map = [ p \in 0 .. (nr_pages_v0 - 1) |-> DEADBEEF ]
    /\ blocks = [ b \in BlockIdsV0 |-> [ next_page |-> -1, nr_invalid_pages |-> 0 ] ]
    /\ pools = [ p \in PoolIdsV0 |->
                   openssd_pool_get_block(
                     [ free_list |-> [ i \in 1 .. NrBlksPerPoolV0 |->
                                         p * NrBlksPerPoolV0 + (i - 1) ],
                       used_list |-> << >>,
                       prio_list |-> [ i \in 1 .. NrBlksPerPoolV0 |->
                                         p * NrBlksPerPoolV0 + (i - 1) ],
                       nr_blocks |-> NrBlksPerPoolV0,
                       nr_free_blocks |-> NrBlksPerPoolV0,
                       lock |-> 0 ]) ]
    /\ aps = [ a \in PoolIdsV0 |-> [ cur |-> a * NrBlksPerPoolV0 ] ]
    /\ next_write_ap = -1
    /\ next_collect_pool = 0
    /\ hint_private = NoHintPrivate
    /\ config = DefaultConfig
    /\ bug = "none"
    /\ inflight = {}
    /\ flash = << >>
    /\ rq = << >>
    /\ gc_pending = {}
    /\ gc_wq = << >>
    /\ gc = IdleGc
    /\ programmed = {}
    /\ host = NoHost

\* openssd_map_ltop_rr's loop on block b of pool: openssd_get_page_id, and a
\* new block for the append point while the page id is negative
RECURSIVE map_ltop_rr_loop(_, _, _)
map_ltop_rr_loop(bl, pool, b) ==
    LET bl1 == [ bl EXCEPT ![b].next_page = @ + 1 ] IN
    IF bl1[b].next_page < NrPagesPerBlkV0
    THEN [ blocks |-> bl1, pool |-> pool, cur |-> b, page_id |-> bl1[b].next_page ]
    ELSE IF pool.free_list = << >>
    THEN \* openssd_pool_get_block returns NULL and leaves pool->lock held
         [ blocks |-> bl1, pool |-> [ pool EXCEPT !.lock = 1 ], cur |-> b,
           page_id |-> -1 ]
    ELSE map_ltop_rr_loop(bl1, openssd_pool_get_block(pool), Head(pool.free_list))

\* openssd_map's call of os->map_ltop for a bio on logical address l
openssd_map_ltop_rr(l) ==
    /\ bug = "none"
    /\ \E smp \in BOOLEAN :
         LET ap_id == (next_write_ap + 1) % (APS_PER_POOL * NrPoolsV0)
             b0 == aps[ap_id].cur
             pid == block_parent(b0)
             st == map_ltop_rr_loop(blocks, pools[pid], b0)
             p_addr == block_to_addr_v0(st.cur) + st.page_id
             old == trans_map[l]
         IN  /\ next_write_ap' = next_write_ap + 1
             /\ IF smp /\ pools[pid].lock = 1
                       /\ blocks[b0].next_page + 1 >= NrPagesPerBlkV0
                THEN \* spin_lock(&pool->lock) in openssd_pool_get_block never returns
                     /\ bug' = "spin_lock"
                     /\ blocks' = [ blocks EXCEPT ![b0].next_page = @ + 1 ]
                     /\ UNCHANGED << pools, aps, trans_map, rev_trans_map >>
                ELSE /\ pools' = [ pools EXCEPT ![pid] = st.pool ]
                     /\ aps' = [ aps EXCEPT ![ap_id].cur = st.cur ]
                     /\ IF st.page_id < 0
                        THEN \* no block left: DM_MAPIO_REQUEUE
                             /\ blocks' = st.blocks
                             /\ UNCHANGED << trans_map, rev_trans_map, bug >>
                        ELSE IF old.block # NoBlock
                                /\ st.blocks[old.block].nr_invalid_pages = NrPagesPerBlkV0
                        THEN \* BUG_ON in openssd_update_mapping
                             /\ bug' = "openssd_update_mapping"
                             /\ blocks' = st.blocks
                             /\ UNCHANGED << trans_map, rev_trans_map >>
                        ELSE /\ blocks' = IF old.block = NoBlock THEN st.blocks
                                          ELSE [ st.blocks EXCEPT
                                                   ![old.block].nr_invalid_pages = @ + 1 ]
                             /\ trans_map' = [ trans_map EXCEPT
                                                 ![l] = [ addr |-> p_addr, block |-> st.cur ] ]
                             /\ rev_trans_map' = [ rev_trans_map EXCEPT ![p_addr] = l ]
                             /\ bug' = bug
    /\ UNCHANGED << inflight, flash, rq, gc_pending, gc_wq, gc, programmed, host,
                    next_collect_pool, hint_private, config >>

\* the first pool, from pid on, with nr_blocks_need >= nr_free_blocks; -1 when
\* the scan comes back to where it started
RECURSIVE gc_find_pool(_, _, _)
gc_find_pool(pl, pid, left) ==
    IF left = 0 THEN -1
    ELSE IF pl[pid].nr_blocks \div GC_LIMIT_INVERSE_V0 >= pl[pid].nr_free_blocks THEN pid
    ELSE gc_find_pool(pl, (pid + 1) % NrPoolsV0, left - 1)

\* the pool the collector's next round collects in, and the block it takes:
\* the head of the sorted prio_list
GcPoolV0 == gc_find_pool(pools, next_collect_pool % NrPoolsV0, NrPoolsV0)

GcVictimV0 ==
    IF GcPoolV0 < 0 THEN NoBlock
    ELSE Head(list_sort_prio(blocks, pools[GcPoolV0].prio_list))

\* the rounds of openssd_gc_collect's while (max_collect) loop
RECURSIVE gc_collect_rounds(_, _)
gc_collect_rounds(st, max_collect) ==
    IF max_collect = 0 THEN st
    ELSE LET pid == gc_find_pool(st.pools, st.next, NrPoolsV0)
             sorted == list_sort_prio(st.blocks, st.pools[pid].prio_list)
             st1 == IF pid < 0 THEN st
                    ELSE [ st EXCEPT
                             !.pools[pid] = openssd_pool_put_block(
                                               [ @ EXCEPT !.prio_list = sorted ],
                                               Head(sorted)),
                             !.blocks[Head(sorted)] = openssd_reset_block_v0(@) ]
         IN  gc_collect_rounds([ st1 EXCEPT !.next = (@ + 1) % NrPoolsV0 ],
                               max_collect - 1)

\* one wake-up of openssd_kthread: openssd_gc_collect
openssd_kthread ==
    /\ bug = "none"
    /\ \E smp \in BOOLEAN :
         IF smp /\ GcPoolV0 >= 0 /\ NrPoolsV0 \div 2 > 0
         THEN \* BUG_ON(spin_is_locked(&block->parent->lock)) in
              \* openssd_reset_block, called with the lock taken
              /\ bug' = "openssd_reset_block"
              /\ pools' = [ pools EXCEPT ![GcPoolV0].prio_list =
                                list_sort_prio(blocks, @) ]
              /\ UNCHANGED << blocks, next_collect_pool >>
         ELSE LET st == gc_collect_rounds(
                          [ blocks |-> blocks, pools |-> pools,
                            next |-> next_collect_pool % NrPoolsV0 ],
                          NrPoolsV0 \div 2)
              IN  /\ blocks' = st.blocks
                  /\ pools' = st.pools
                  /\ next_collect_pool' = st.next
                  /\ bug' = bug
    /\ UNCHANGED << trans_map, rev_trans_map, aps, next_write_ap, inflight, flash,
                    rq, gc_pending, gc_wq, gc, programmed, host, hint_private, config >>

NextV0 ==
    \/ \E l \in LAddrs :
         /\ next_write_ap < MaxAllocV0
         /\ openssd_map_ltop_rr(l)
    \/ openssd_kthread

SpecV0 == InitV0 /\ [][NextV0]_vars

-----------------------------------------------------------------------------
(* Properties of SpecSeq *)

\* some block of pool p holds an invalid page
HasInvalid(p) == \E b \in PoolBlocks(p) : blocks[b].nr_invalid_pages > 0

-----------------------------------------------------------------------------
(* Properties of SpecV0 *)

\* C10: put_block and reset are idempotent on the counters: when the
\* collector returns a block that is already on the free list (and so already
\* reset), the pool's nr_free_blocks and the block's next_page and
\* nr_invalid_pages stay as the first put left them
C10_PutResetIdempotent ==
    [][ ( /\ openssd_kthread
          /\ bug' = "none"
          /\ GcVictimV0 # NoBlock
          /\ InSeq(GcVictimV0, pools[GcPoolV0].free_list) )
        => ( /\ pools'[GcPoolV0].nr_free_blocks = pools[GcPoolV0].nr_free_blocks
             /\ blocks'[GcVictimV0] = blocks[GcVictimV0] ) ]_vars

----------------------------------------------------------------------------
(* The hint engine (part_001) on the allocator of dm-openssd-core.c, for a *)
(* target whose geometry and engine are the constructor's arguments held   *)
(* in config. Allocation works on a record                                 *)
(*   [ blocks, pools, aps, next_write_ap ]                                 *)
(* and returns it with the address and the block that were obtained.       *)

os_nr_aps == config.nr_aps_per_pool * config.nr_pools

os_nr_host_pages_in_blk == NR_HOST_PAGES_IN_FLASH_PAGE * config.nr_pages_per_blk

os_nr_blocks == config.nr_pools * config.nr_blks_per_pool

os_nr_pages == os_nr_blocks * os_nr_host_pages_in_blk

\* block->pool and ap->pool as nvm_pool_init sets them
os_block_pool(b) == b \div config.nr_blks_per_pool

os_ap_pool(a) == a \div config.nr_aps_per_pool

os_block_is_full(blk) ==
    (blk.next_page * NR_HOST_PAGES_IN_FLASH_PAGE) + blk.next_offset
        = os_nr_host_pages_in_blk

os_block_to_addr(b) == b * os_nr_host_pages_in_blk

\* F F F F | SSFFSS | SSFFSS | ... | S S S S
page_is_fast(pagenr) ==
    IF pagenr < 4 THEN TRUE
    ELSE IF pagenr >= config.nr_pages_per_blk - 4 THEN FALSE
    ELSE ((pagenr - 4) % 4) \in { 2, 3 }

physical_to_slot(phys) ==
    (phys % (config.nr_pages_per_blk * NR_HOST_PAGES_IN_FLASH_PAGE))
        \div NR_HOST_PAGES_IN_FLASH_PAGE

\* the inode of a pack append point that serves no inode
INODE_EMPTY == 0 - 1

\* ap->hint_private of an append point that is not a pack append point
NoApHint == << >>

\* init_ap_hint: the pack append point serves no inode
init_ap_hint(ap) == [ ap EXCEPT !.hint_private = [ ino |-> INODE_EMPTY ] ]

\* the driver's state as the allocation and mapping functions see it, with
\* the address, block and append point of the last allocation
OsState ==
    [ blocks |-> blocks, pools |-> pools, aps |-> aps,
      next_write_ap |-> next_write_ap, trans_map |-> trans_map,
      rev_trans_map |-> rev_trans_map, shadow_map |-> hint_private.shadow_map,
      addr |-> LTOP_EMPTY, block |-> NoBlock, ap |-> NoAp ]

\* openssd_alloc_phys_addr_pack, the pack engine's os->alloc_phys_addr hook,
\* called with the block's cursor already advanced
openssd_alloc_phys_addr_pack(st, b) ==
    IF os_block_is_full(st.blocks[b])
    THEN LET a == st.blocks[b].ap
             ap1 == IF a # NoAp /\ st.aps[a].hint_private # NoApHint
                    THEN [ st.aps EXCEPT ![a] = init_ap_hint(@) ]
                    ELSE st.aps
         IN  [ st EXCEPT !.aps = ap1, !.blocks[b].ap = NoAp ]
    ELSE st

\* __openssd_alloc_phys_addr: the next page of block b, LTOP_EMPTY when the
\* block is full or when a fast page is required and the next one is slow
openssd_alloc_phys_addr_core(st, b, req_fast) ==
    LET blk == st.blocks[b]
        turn == blk.next_offset = NR_HOST_PAGES_IN_FLASH_PAGE
    IN  IF os_block_is_full(blk) THEN [ st EXCEPT !.addr = LTOP_EMPTY ]
        ELSE IF turn /\ req_fast /\ ~page_is_fast(blk.next_page + 1)
        THEN [ st EXCEPT !.addr = LTOP_EMPTY ]
        ELSE LET next_page == IF turn THEN blk.next_page + 1 ELSE blk.next_page
                 next_offset == IF turn THEN 0 ELSE blk.next_offset
                 st1 == [ st EXCEPT
                            !.blocks[b].next_page = next_page,
                            !.blocks[b].next_offset = next_offset + 1,
                            !.addr = os_block_to_addr(b)
                                       + (next_page * NR_HOST_PAGES_IN_FLASH_PAGE)
                                       + next_offset ]
             IN  IF "PACK" \in config.flags
                 THEN openssd_alloc_phys_addr_pack(st1, b)
                 ELSE st1

openssd_alloc_phys_addr(st, b) == openssd_alloc_phys_addr_core(st, b, FALSE)

\* openssd_reset_block as a function of the block's record
openssd_reset_block(blk) ==
    [ blk EXCEPT !.invalid_pages = {}, !.ap = NoAp, !.next_page = 0,
                 !.next_offset = 0, !.nr_invalid_pages = 0 ]

\* nvm_pool_get_block (dm-openssd-core.c) on a pool with a free block
os_pool_get_block(st, p) ==
    LET b == Head(st.pools[p].free_list) IN
    [ st EXCEPT !.pools[p].free_list = Tail(@),
                !.pools[p].used_list = Append(@, b),
                !.pools[p].prio_list = Append(@, b),
                !.pools[p].nr_free_blocks = @ - 1,
                !.blocks[b] = openssd_reset_block(@),
                !.block = b ]

\* openssd_set_ap_cur
openssd_set_ap_cur(st, a, b) ==
    LET old == st.aps[a].cur
        bl1 == IF old # NoBlock THEN [ st.blocks EXCEPT ![old].ap = NoAp ]
               ELSE st.blocks
    IN  [ st EXCEPT !.blocks = [ bl1 EXCEPT ![b].ap = a ], !.aps[a].cur = b ]

\* openssd_alloc_addr_from_ap: the current block, and new blocks of the
\* block's pool while the allocation fails
RECURSIVE alloc_addr_from_ap_loop(_, _, _)
alloc_addr_from_ap_loop(st, a, b) ==
    IF st.addr # LTOP_EMPTY THEN [ st EXCEPT !.block = b, !.ap = a ]
    ELSE IF st.pools[os_block_pool(b)].free_list = << >>
    THEN [ st EXCEPT !.block = NoBlock, !.ap = a ]
    ELSE LET got == os_pool_get_block(st, os_block_pool(b))
             cur == openssd_set_ap_cur(got, a, got.block)
         IN  alloc_addr_from_ap_loop(openssd_alloc_phys_addr(cur, got.block),
                                     a, got.block)

openssd_alloc_addr_from_ap(st, a) ==
    alloc_addr_from_ap_loop(openssd_alloc_phys_addr(st, st.aps[a].cur), a,
                            st.aps[a].cur)

\* get_next_ap: atomic_inc_return(&os->next_write_ap) % os->nr_aps
os_get_next_ap(st) == [ st EXCEPT !.next_write_ap = @ + 1 ]

os_cur_ap(st) == st.next_write_ap % os_nr_aps

\* openssd_alloc_ltop_rr
openssd_alloc_ltop_rr(st) ==
    LET st1 == os_get_next_ap(st) IN openssd_alloc_addr_from_ap(st1, os_cur_ap(st1))

\* openssd_alloc_phys_fastest_addr: nr_pools append points are asked for a
\* fast page; when none has one, the block looked at last gives its next page
RECURSIVE alloc_phys_fastest_loop(_, _)
alloc_phys_fastest_loop(st, i) ==
    IF i = config.nr_pools THEN st
    ELSE LET st1 == os_get_next_ap(st)
             a == os_cur_ap(st1)
             b == st1.aps[a].cur
             st2 == [ openssd_alloc_phys_addr_core(st1, b, TRUE) EXCEPT
                        !.block = b, !.ap = a ]
         IN  IF st2.addr # LTOP_EMPTY THEN st2
             ELSE alloc_phys_fastest_loop(st2, i + 1)

openssd_alloc_phys_fastest_addr(st) ==
    LET st1 == alloc_phys_fastest_loop(st, 0) IN
    IF st1.addr = LTOP_EMPTY THEN openssd_alloc_phys_addr(st1, st1.block)
    ELSE st1

\* an invalidation that sets the bit and does not count the page
os_invalidate_block_page_nocount(bl, entry) ==
    IF entry.block # NoBlock
    THEN [ bl EXCEPT ![entry.block].invalid_pages =
                         @ \cup { entry.addr % os_nr_host_pages_in_blk } ]
    ELSE bl

\* invalidate_block_page on a map entry: the page the entry leaves gets its
\* bit set and is counted
os_invalidate_block_page(bl, entry) ==
    IF entry.block # NoBlock
    THEN [ bl EXCEPT ![entry.block].invalid_pages =
                         @ \cup { entry.addr % os_nr_host_pages_in_blk },
                     ![entry.block].nr_invalid_pages = @ + 1 ]
    ELSE bl

\* openssd_update_map: nothing is done for an address outside the device
openssd_update_map(st, l_addr, p_addr, p_block) ==
    IF l_addr >= os_nr_pages \/ p_addr \notin 0 .. (os_nr_pages - 1) THEN st
    ELSE [ st EXCEPT
             !.blocks = os_invalidate_block_page(@, st.trans_map[l_addr]),
             !.trans_map[l_addr] = [ addr |-> p_addr, block |-> p_block ],
             !.rev_trans_map[p_addr] = l_addr ]

\* openssd_alloc_map_ltop_rr
openssd_alloc_map_ltop_rr(st, l_addr) ==
    LET st1 == openssd_alloc_ltop_rr(st) IN
    openssd_update_map(st1, l_addr, st1.addr, st1.block)

\* openssd_update_map_shadow with MAP_SHADOW
openssd_update_map_shadow(st, l_addr, p_addr, p_block) ==
    [ st EXCEPT
        !.blocks = os_invalidate_block_page(@, st.shadow_map[l_addr]),
        !.shadow_map[l_addr] = [ addr |-> p_addr, block |-> p_block ],
        !.rev_trans_map[p_addr] = l_addr ]

\* openssd_trim_map_shadow: the shadow page is invalidated and the entry is
\* left with address 0 and no block
openssd_trim_map_shadow(st, l_addr) ==
    LET l == st.shadow_map[l_addr]
        st1 == IF l.block # NoBlock
               THEN [ st EXCEPT !.blocks = os_invalidate_block_page(@, l),
                                !.rev_trans_map[l.addr] = LTOP_EMPTY ]
               ELSE st
    IN  [ st1 EXCEPT !.shadow_map[l_addr] = [ addr |-> 0, block |-> NoBlock ] ]

\* map_alloc_data.hint_info of a write no hint covers
NoHintInfo == << >>

\* openssd_map_latency_hint_ltop_rr for a host write
openssd_map_latency_hint_ltop_rr(st, l_addr, flags) ==
    IF flags = "MAP_PRIMARY" THEN openssd_alloc_map_ltop_rr(st, l_addr)
    ELSE LET st1 == openssd_alloc_ltop_rr(st) IN
         IF st1.block # NoBlock
         THEN openssd_update_map_shadow(st1, l_addr, st1.addr, st1.block)
         ELSE st1

\* openssd_map_swap_hint_ltop_rr for a host write: block is never NULL after
\* openssd_alloc_phys_fastest_addr
openssd_map_swap_hint_ltop_rr(st, l_addr, hint_info) ==
    IF hint_info = NoHintInfo THEN openssd_alloc_map_ltop_rr(st, l_addr)
    ELSE LET st1 == openssd_alloc_phys_fastest_addr(st) IN
         IF st1.block = NoBlock THEN openssd_alloc_map_ltop_rr(st1, l_addr)
         ELSE openssd_update_map(st1, l_addr, st1.addr, st1.block)

\* openssd_alloc_phys_pack_addr, first loop: the append points aps[0] ..
\* aps[nr_pools - 1] are searched for one that serves the hint's inode
RECURSIVE pack_find_ino(_, _, _)
pack_find_ino(st, ino, i) ==
    IF i = config.nr_pools THEN st
    ELSE IF st.aps[i].hint_private # NoApHint /\ st.aps[i].hint_private.ino = ino
    THEN openssd_alloc_addr_from_ap(st, i)
    ELSE pack_find_ino(st, ino, i + 1)

\* second loop: nr_pools turns of get_next_ap for a pack append point that
\* serves no inode, this inode, or another inode for longer than
\* AP_DISASSOCIATE_TIME (expired); .ap is the append point found, or NoAp
RECURSIVE pack_probe_empty(_, _, _, _)
pack_probe_empty(st, ino, expired, i) ==
    IF i = config.nr_pools THEN [ st EXCEPT !.ap = NoAp ]
    ELSE LET st1 == os_get_next_ap(st)
             a == os_cur_ap(st1)
             h == st1.aps[a].hint_private
         IN  IF h = NoApHint THEN pack_probe_empty(st1, ino, expired, i + 1)
             ELSE IF h.ino # INODE_EMPTY /\ h.ino # ino /\ ~expired
             THEN pack_probe_empty(st1, ino, expired, i + 1)
             ELSE [ st1 EXCEPT !.ap = a ]

\* ... and what the loop does with the append point it found: associate
\* it with the inode, then take a page from it
pack_take(st, ino, a) ==
    openssd_alloc_addr_from_ap([ st EXCEPT !.aps[a].hint_private.ino = ino ], a)

pack_find_empty(st, ino, expired, i) ==
    LET st1 == pack_probe_empty(st, ino, expired, i) IN
    IF st1.ap = NoAp THEN [ st1 EXCEPT !.ap = st.ap ]
    ELSE pack_take(st1, ino, st1.ap)

\* the fallback: get_next_ap until the append point is not a pack one
RECURSIVE pack_next_regular(_)
pack_next_regular(st) ==
    LET st1 == os_get_next_ap(st) IN
    IF st1.aps[os_cur_ap(st1)].hint_private # NoApHint THEN pack_next_regular(st1)
    ELSE openssd_alloc_addr_from_ap(st1, os_cur_ap(st1))

openssd_alloc_phys_pack_addr(st, ino, expired) ==
    LET st1 == pack_find_ino(st, ino, 0) IN
    IF st1.addr # LTOP_EMPTY THEN st1
    ELSE LET st2 == pack_find_empty(st1, ino, expired, 0) IN
         IF st2.addr # LTOP_EMPTY THEN st2
         ELSE pack_next_regular(st2)

\* openssd_map_pack_hint_ltop_rr for a host write
openssd_map_pack_hint_ltop_rr(st, l_addr, hint_info, expired) ==
    IF hint_info = NoHintInfo THEN openssd_alloc_map_ltop_rr(st, l_addr)
    ELSE LET st1 == openssd_alloc_phys_pack_addr(st, hint_info.ino, expired) IN
         IF st1.block # NoBlock
         THEN openssd_update_map(st1, l_addr, st1.addr, st1.block)
         ELSE st1

\* os->map_ltop as openssd_alloc_hint installs it for the engine in config
os_map_ltop(st, l_addr, hint_info, flags, expired) ==
    IF "SWAP" \in config.flags
    THEN openssd_map_swap_hint_ltop_rr(st, l_addr, hint_info)
    ELSE IF "LATENCY" \in config.flags
    THEN openssd_map_latency_hint_ltop_rr(st, l_addr, flags)
    ELSE IF "PACK" \in config.flags
    THEN openssd_map_pack_hint_ltop_rr(st, l_addr, hint_info, expired)
    ELSE openssd_alloc_map_ltop_rr(st, l_addr)

\* openssd_lookup_ltop_map without the wait for a collector
openssd_lookup_ltop_map(map, l_addr) == map[l_addr]

openssd_latency_lookup_ltop_primary(l_addr) ==
    openssd_lookup_ltop_map(trans_map, l_addr)

\* openssd_latency_lookup_ltop
openssd_latency_lookup_ltop(l_addr) ==
    IF hint_private.shadow_map[l_addr].addr = LTOP_EMPTY
    THEN openssd_lookup_ltop_map(trans_map, l_addr)
    ELSE LET pool_idx == trans_map[l_addr].addr
                            \div (os_nr_pages \div config.nr_pools)
         IN  IF pool_idx \in DOMAIN pools /\ pools[pool_idx].is_active = 1
             THEN openssd_lookup_ltop_map(hint_private.shadow_map, l_addr)
             ELSE openssd_lookup_ltop_map(trans_map, l_addr)

\* os->lookup_ltop for the engine in config
os_lookup_ltop(l_addr) ==
    IF "LATENCY" \in config.flags /\ "SWAP" \notin config.flags
    THEN openssd_latency_lookup_ltop(l_addr)
    ELSE openssd_lookup_ltop_map(trans_map, l_addr)

----------------------------------------------------------------------------
(* Hints *)

is_hint_relevant(l_addr, hint_info) ==
    /\ hint_info.is_write
    /\ l_addr >= hint_info.start_lba
    /\ l_addr < hint_info.start_lba + hint_info.count
    /\ hint_info.hint_flags \cap config.flags # {}

\* openssd_find_hint: the position of the first relevant hint, 0 if none
openssd_find_hint(hintlist, l_addr) ==
    LET hits == { i \in 1 .. Len(hintlist) : is_hint_relevant(l_addr, hintlist[i]) }
    IN  IF hits = {} THEN 0 ELSE CHOOSE i \in hits : \A j \in hits : i <= j

\* ... and the list with that hint's processed count advanced
openssd_find_hint_list(hintlist, l_addr) ==
    LET i == openssd_find_hint(hintlist, l_addr) IN
    IF i = 0 THEN hintlist ELSE [ hintlist EXCEPT ![i].processed = @ + 1 ]

\* the end of openssd_write_bio_hint: a hint that is processed entirely is
\* taken off the list
write_bio_hint_done(hintlist, hint_info) ==
    IF hint_info = NoHintInfo THEN hintlist
    ELSE SelectSeq(hintlist,
                   LAMBDA h : ~(h.id = hint_info.id /\ h.processed = h.count))

----------------------------------------------------------------------------
(* SpecHint: host writes and reads through openssd_write_bio_hint and the  *)
(* engine's map_ltop and lookup_ltop, hints sent by openssd_send_hint, and *)
(* the device completing what a pool has in flight. A write with a latency *)
(* hint is two steps, one per copy. A write that gets no page stops the    *)
(* run: what openssd_write_execute_bio does then is not in the sources.    *)

\* the host of each target: concurrent writers where the strategy writes a
\* page in two steps, the logical addresses and inodes of the scenarios,
\* and the number of round-robin turns followed
HintWriters == DOMAIN rq

HintLAddrs ==
    IF config.flags = {} THEN { 0 }
    ELSE IF "LATENCY" \in config.flags THEN { 7 }
    ELSE IF "PACK" \in config.flags /\ Len(rq) > 1 THEN { 5, 6 }
    ELSE { 5 }

\* the inodes a hint for l_addr can name: with concurrent writers in the
\* pack target, address 5 is of inode 42's file and address 6 of inode 99's
Inodes(l_addr) ==
    IF "PACK" \notin config.flags THEN { 42 }
    ELSE IF Len(rq) = 1 THEN { 42, 99 }
    ELSE IF l_addr = 5 THEN { 42 } ELSE { 99 }

HintMaxHints ==
    IF "PACK" \in config.flags /\ Len(rq) > 1 THEN MaxPackHints ELSE MaxHints

HintMaxAlloc ==
    IF "SWAP" \in config.flags THEN MaxSwapAlloc ELSE MaxHintAlloc

\* the targets the constructor is asked for: the scenario geometry with the
\* default strategy, and one or two append points per pool with an engine
HintConfigs ==
    { [ nr_pools |-> 2, nr_blks_per_pool |-> 4, nr_pages_per_blk |-> 4,
        nr_aps_per_pool |-> 1, flags |-> {} ],
      [ nr_pools |-> 2, nr_blks_per_pool |-> 3, nr_pages_per_blk |-> 8,
        nr_aps_per_pool |-> 1, flags |-> { "SWAP" } ],
      [ nr_pools |-> 2, nr_blks_per_pool |-> 5, nr_pages_per_blk |-> 2,
        nr_aps_per_pool |-> 1, flags |-> { "LATENCY" } ],
      [ nr_pools |-> 2, nr_blks_per_pool |-> 5, nr_pages_per_blk |-> 2,
        nr_aps_per_pool |-> 2, flags |-> { "LATENCY" } ],
      [ nr_pools |-> 2, nr_blks_per_pool |-> 5, nr_pages_per_blk |-> 2,
        nr_aps_per_pool |-> 2, flags |-> { "PACK" } ] }

IdleBio ==
    [ pc |-> "idle", l_addr |-> 0, hint_info |-> NoHintInfo, p_addrs |-> << >>,
      aps |-> << >>, stale |-> FALSE, expired |-> FALSE ]

\* nvm_pool_init and openssd_alloc_hint for the target c: every append point
\* takes two blocks of its pool (cur and gc_cur), the last append point of
\* every pool is a pack append point
InitHintFor(c, nr_writers) ==
    LET taken == 2 * c.nr_aps_per_pool
        first(pl) == pl * c.nr_blks_per_pool
        n_pages == c.nr_pools * c.nr_blks_per_pool * c.nr_pages_per_blk
                     * NR_HOST_PAGES_IN_FLASH_PAGE
        cur(a) == first(a \div c.nr_aps_per_pool) + (2 * (a % c.nr_aps_per_pool))
    IN  /\ config = c
        /\ blocks = [ b \in 0 .. (c.nr_pools * c.nr_blks_per_pool - 1) |->
                        [ next_page |-> 0, next_offset |-> 0,
                          nr_invalid_pages |-> 0, invalid_pages |-> {},
                          \* atomic_set(&block->gc_running, 0); the kref of
                          \* a block that is not being collected
                          gc_running |-> 0, ref_count |-> 1,
                          ap |-> IF (b % c.nr_blks_per_pool) < taken
                                    /\ (b % c.nr_blks_per_pool) % 2 = 0
                                 THEN ((b \div c.nr_blks_per_pool) * c.nr_aps_per_pool)
                                        + ((b % c.nr_blks_per_pool) \div 2)
                                 ELSE NoAp ] ]
        /\ pools = [ pl \in 0 .. (c.nr_pools - 1) |->
                       [ free_list |-> [ i \in 1 .. (c.nr_blks_per_pool - taken) |->
                                           first(pl) + taken + (i - 1) ],
                         used_list |-> [ i \in 1 .. taken |-> first(pl) + (i - 1) ],
                         prio_list |-> [ i \in 1 .. taken |-> first(pl) + (i - 1) ],
                         nr_blocks |-> c.nr_blks_per_pool,
                         nr_free_blocks |-> c.nr_blks_per_pool - taken,
                         is_active |-> 0 ] ]
        /\ aps = [ a \in 0 .. (c.nr_aps_per_pool * c.nr_pools - 1) |->
                     [ cur |-> cur(a), gc_cur |-> cur(a) + 1,
                       hint_private |->
                           IF a % c.nr_aps_per_pool = c.nr_aps_per_pool - 1
                           THEN [ ino |-> INODE_EMPTY ] ELSE NoApHint ] ]
        /\ trans_map = [ l \in 0 .. (n_pages - 1) |->
                           [ addr |-> LTOP_EMPTY, block |-> NoBlock ] ]
        /\ rev_trans_map = [ q \in 0 .. (n_pages - 1) |-> LTOP_EMPTY ]
        /\ hint_private =
               [ shadow_map |-> [ l \in 0 .. (n_pages - 1) |->
                                    [ addr |-> LTOP_EMPTY, block |-> NoBlock ] ],
                 hintlist |-> << >> ]
        /\ flash = [ q \in 0 .. (n_pages - 1) |-> DataErased ]
        /\ next_write_ap = -1
        /\ rq = [ w \in 1 .. nr_writers |-> IdleBio ]
        /\ bug = "none"
        /\ inflight = {}
        /\ gc_pending = {}
        /\ gc_wq = << >>
        /\ gc = IdleGc
        /\ programmed = {}
        /\ host = NoHost
        /\ next_collect_pool = 0

\* the latency target has concurrent writers
InitHintWith(c) ==
    InitHintFor(c, IF "LATENCY" \in c.flags THEN NrHintWriters ELSE 1)

InitHint == \E c \in HintConfigs : InitHintWith(c)

\* openssd_send_hint for a hint the engine accepts: appended to the list
openssd_send_hint(l_addr, count, ino) ==
    /\ bug = "none"
    /\ config.flags # {}
    /\ Len(hint_private.hintlist) < HintMaxHints
    /\ LET ids == { hint_private.hintlist[i].id :
                      i \in 1 .. Len(hint_private.hintlist) }
           hint_info == [ id |-> CHOOSE i \in 1 .. HintMaxHints : i \notin ids,
                          ino |-> ino, start_lba |-> l_addr, count |-> count,
                          hint_flags |-> config.flags, is_write |-> TRUE,
                          processed |-> 0 ]
       IN  hint_private' = [ hint_private EXCEPT !.hintlist = Append(@, hint_info) ]
    /\ UNCHANGED << trans_map, rev_trans_map, blocks, pools, aps, next_write_ap,
                    inflight, flash, rq, gc_pending, gc_wq, gc, programmed, bug,
                    host, next_collect_pool, config >>

\* one openssd_write_execute_bio of writer w: the page map_ltop obtained is
\* programmed with data and the bio is handed to openssd_submit_bio, which
\* makes the block's pool active
write_execute_bio(w, st, l_addr, data, bio) ==
    /\ blocks' = st.blocks
    /\ aps' = st.aps
    /\ next_write_ap' = st.next_write_ap
    /\ trans_map' = st.trans_map
    /\ rev_trans_map' = st.rev_trans_map
    /\ IF st.addr = LTOP_EMPTY
       THEN /\ bug' = "out_of_space"
            /\ pools' = st.pools
            /\ flash' = flash
            /\ rq' = [ rq EXCEPT ![w] = [ bio EXCEPT !.pc = "failed" ] ]
       ELSE /\ bug' = bug
            /\ pools' = [ st.pools EXCEPT ![os_block_pool(st.block)].is_active = 1 ]
            /\ flash' = [ (IF data = DataStale \/ Len(bio.p_addrs) > 1
                           THEN flash ELSE Supersede(flash, l_addr))
                          EXCEPT ![st.addr] = data ]
            /\ rq' = [ w2 \in DOMAIN rq |->
                         IF w2 = w THEN bio
                         ELSE IF rq[w2].pc = "shadow" /\ rq[w2].l_addr = l_addr
                                 /\ Len(bio.p_addrs) = 1
                         THEN [ rq[w2] EXCEPT !.stale = TRUE ]
                         ELSE rq[w2] ]

\* a write of l_addr that openssd_alloc_phys_pack_addr serves from its second
\* loop: the write is pack-hinted, no append point of the first loop serves
\* the hint's inode, and the second loop finds a pack append point
PackProbeCase(l_addr, expired) ==
    /\ "PACK" \in config.flags
    /\ \E i \in { openssd_find_hint(hint_private.hintlist, l_addr) } :
          /\ i # 0
          /\ \A k \in 0 .. (config.nr_pools - 1) :
                 IF aps[k].hint_private = NoApHint THEN TRUE
                 ELSE aps[k].hint_private.ino # hint_private.hintlist[i].ino
          /\ pack_probe_empty(OsState, hint_private.hintlist[i].ino, expired, 0).ap
                 # NoAp

\* openssd_write_bio_hint up to the end of the first turn of its loop
openssd_write_bio_hint(w, l_addr, expired) ==
    /\ bug = "none"
    /\ rq[w].pc \in { "idle", "done" }
    /\ next_write_ap < HintMaxAlloc
    /\ ~ PackProbeCase(l_addr, expired)
    /\ \E hintlist \in { openssd_find_hint_list(hint_private.hintlist, l_addr) } :
       \E i \in { openssd_find_hint(hint_private.hintlist, l_addr) } :
       \E hint_info \in { IF i = 0 THEN NoHintInfo ELSE hintlist[i] } :
       \E numCopies \in { IF hint_info # NoHintInfo
                             /\ "LATENCY" \in hint_info.hint_flags THEN 2 ELSE 1 } :
       \E st0 \in { os_map_ltop(OsState, l_addr, hint_info, "MAP_PRIMARY", expired) } :
       \E st \in { IF "LATENCY" \in config.flags /\ st0.addr # LTOP_EMPTY
                    THEN openssd_trim_map_shadow(st0, l_addr) ELSE st0 } :
       \E bio \in { [ pc |-> IF numCopies = 2 THEN "shadow" ELSE "done",
                       l_addr |-> l_addr, hint_info |-> hint_info,
                       p_addrs |-> << st.addr >>, aps |-> << st.ap >>,
                       stale |-> FALSE, expired |-> expired ] } :
           /\ write_execute_bio(w, st, l_addr, Fresh(l_addr), bio)
           /\ hint_private' =
                  [ shadow_map |-> st.shadow_map,
                    hintlist |-> IF numCopies = 2 \/ st.addr = LTOP_EMPTY
                                 THEN hintlist
                                 ELSE write_bio_hint_done(hintlist, hint_info) ]
    /\ UNCHANGED << inflight, gc_pending, gc_wq, gc, programmed, host,
                    next_collect_pool, config >>

\* the second turn of the loop, for the shadow copy, and the function's end
openssd_write_bio_hint_shadow(w) ==
    /\ bug = "none"
    /\ rq[w].pc = "shadow"
    /\ \E l_addr \in { rq[w].l_addr } :
       \E st \in { os_map_ltop(OsState, l_addr, rq[w].hint_info, "MAP_SHADOW", FALSE) } :
       \E bio \in { [ rq[w] EXCEPT !.pc = "done",
                                    !.p_addrs = Append(@, st.addr),
                                    !.aps = Append(@, st.ap) ] } :
           /\ write_execute_bio(w, st, l_addr,
                                IF rq[w].stale THEN DataStale ELSE Fresh(l_addr), bio)
           /\ hint_private' =
                  [ shadow_map |-> st.shadow_map,
                    hintlist |-> IF st.addr = LTOP_EMPTY
                                 THEN hint_private.hintlist
                                 ELSE write_bio_hint_done(hint_private.hintlist,
                                                          rq[w].hint_info) ]
    /\ UNCHANGED << inflight, gc_pending, gc_wq, gc, programmed, host,
                    next_collect_pool, config >>

\* openssd_write_bio_hint for a write of PackProbeCase, up to the test of the
\* append point's inode in the second loop of openssd_alloc_phys_pack_addr.
\* The test and the association that follows it are not under a lock
\* (os->map_ltop is called without one, dm-openssd-core.c 435), so another
\* writer can run between the two.
openssd_alloc_phys_pack_addr_probe(w, l_addr, expired) ==
    /\ bug = "none"
    /\ rq[w].pc \in { "idle", "done" }
    /\ next_write_ap < HintMaxAlloc
    /\ PackProbeCase(l_addr, expired)
    /\ \E hintlist \in { openssd_find_hint_list(hint_private.hintlist, l_addr) } :
       \E i \in { openssd_find_hint(hint_private.hintlist, l_addr) } :
       \E st \in { pack_probe_empty(OsState, hintlist[i].ino, expired, 0) } :
           /\ next_write_ap' = st.next_write_ap
           /\ rq' = [ rq EXCEPT ![w] =
                        [ pc |-> "pack", l_addr |-> l_addr, hint_info |-> hintlist[i],
                          p_addrs |-> << >>, aps |-> << st.ap >>,
                          stale |-> FALSE, expired |-> expired ] ]
           /\ hint_private' = [ hint_private EXCEPT !.hintlist = hintlist ]
    /\ UNCHANGED << trans_map, rev_trans_map, blocks, pools, aps, inflight, flash,
                    gc_pending, gc_wq, gc, programmed, bug, host,
                    next_collect_pool, config >>

\* ... and the rest of that write: the append point is associated with the
\* inode and gives a page (or, without one, a regular append point does),
\* the map is updated and the bio executed
openssd_alloc_phys_pack_addr_take(w) ==
    /\ bug = "none"
    /\ rq[w].pc = "pack"
    /\ \E l_addr \in { rq[w].l_addr } :
       \E st1 \in { pack_take(OsState, rq[w].hint_info.ino, rq[w].aps[1]) } :
       \E st2 \in { IF st1.addr # LTOP_EMPTY THEN st1 ELSE pack_next_regular(st1) } :
       \E st \in { IF st2.block # NoBlock
                    THEN openssd_update_map(st2, l_addr, st2.addr, st2.block)
                    ELSE st2 } :
       \E bio \in { [ rq[w] EXCEPT !.pc = "done", !.p_addrs = << st.addr >>,
                                    !.aps = << st.ap >> ] } :
           /\ write_execute_bio(w, st, l_addr, Fresh(l_addr), bio)
           /\ hint_private' =
                  [ shadow_map |-> st.shadow_map,
                    hintlist |-> IF st.addr = LTOP_EMPTY
                                 THEN hint_private.hintlist
                                 ELSE write_bio_hint_done(hint_private.hintlist,
                                                          rq[w].hint_info) ]
    /\ UNCHANGED << inflight, gc_pending, gc_wq, gc, programmed, host,
                    next_collect_pool, config >>

\* the record a writer holds was taken off the hint list and freed by another
\* writer's openssd_write_bio_hint
hint_info_freed(hint_info) ==
    /\ hint_info # NoHintInfo
    /\ \A i \in 1 .. Len(hint_private.hintlist) :
           hint_private.hintlist[i].id # hint_info.id

\* the rest of openssd_write_bio_hint for a writer whose record was freed:
\* the mapping function and the processed == count test read freed memory
\* and, with the stale count equal, list_del and kfree run a second time.
\* Besides the outcome in which the memory still holds the record (the
\* steps above), the driver's state is undefined from here
openssd_write_bio_hint_freed(w) ==
    /\ bug = "none"
    /\ rq[w].pc \in { "shadow", "pack" }
    /\ hint_info_freed(rq[w].hint_info)
    /\ bug' = "use_after_free"
    /\ UNCHANGED << trans_map, rev_trans_map, blocks, pools, aps, next_write_ap,
                    inflight, flash, rq, gc_pending, gc_wq, gc, programmed, host,
                    next_collect_pool, hint_private, config >>

\* what openssd_read_bio_generic hands back for l_addr with the engine's
\* lookup_ltop: zeros for an entry without a block, else the page's content
read_bio_data(l_addr) ==
    LET phys == os_lookup_ltop(l_addr) IN
    IF phys.block = NoBlock THEN DataZero ELSE flash[phys.addr]

\* openssd_read_bio_generic: a read of a mapped address goes to the device
\* through openssd_submit_bio, which makes the block's pool active
openssd_read_bio_hint(l_addr) ==
    /\ bug = "none"
    /\ \E phys \in { os_lookup_ltop(l_addr) } :
       /\ phys.block # NoBlock
       /\ pools[os_block_pool(phys.block)].is_active = 0
       /\ pools' = [ pools EXCEPT ![os_block_pool(phys.block)].is_active = 1 ]
    /\ UNCHANGED << trans_map, rev_trans_map, blocks, aps, next_write_ap, inflight,
                    flash, rq, gc_pending, gc_wq, gc, programmed, bug, host,
                    next_collect_pool, hint_private, config >>

\* openssd_endio with nothing waiting: the pool stops being active
openssd_endio_hint(pl) ==
    /\ bug = "none"
    /\ pools[pl].is_active = 1
    /\ pools' = [ pools EXCEPT ![pl].is_active = 0 ]
    /\ UNCHANGED << trans_map, rev_trans_map, blocks, aps, next_write_ap, inflight,
                    flash, rq, gc_pending, gc_wq, gc, programmed, bug, host,
                    next_collect_pool, hint_private, config >>

NextHint ==
    \/ \E l \in HintLAddrs, count \in 1 .. 2 : \E ino \in Inodes(l) :
           openssd_send_hint(l, count, ino)
    \/ \E w \in HintWriters, l \in HintLAddrs, expired \in BOOLEAN :
           openssd_write_bio_hint(w, l, expired)
    \/ \E w \in HintWriters : openssd_write_bio_hint_shadow(w)
    \/ \E w \in HintWriters, l \in HintLAddrs, expired \in BOOLEAN :
           openssd_alloc_phys_pack_addr_probe(w, l, expired)
    \/ \E w \in HintWriters : openssd_alloc_phys_pack_addr_take(w)
    \/ \E w \in HintWriters : openssd_write_bio_hint_freed(w)
    \/ \E l \in HintLAddrs : openssd_read_bio_hint(l)
    \/ \E pl \in DOMAIN pools : openssd_endio_hint(pl)

SpecHint == InitHint /\ [][NextHint]_vars

----------------------------------------------------------------------------
(* SpecPack: the pack target with concurrent writers, all of whose writes   *)
(* come within AP_DISASSOCIATE_TIME of the append point's last use.         *)

PackConfig ==
    [ nr_pools |-> 2, nr_blks_per_pool |-> 5, nr_pages_per_blk |-> 2,
      nr_aps_per_pool |-> 2, flags |-> { "PACK" } ]

InitPack == InitHintFor(PackConfig, NrHintWriters)

\* writer 1 writes inode 42's file and writer 2 inode 99's
PackWriterLAddr(w) == 4 + w

NextPack ==
    \/ \E l \in HintLAddrs, count \in { 2 } : \E ino \in Inodes(l) :
           openssd_send_hint(l, count, ino)
    \/ \E w \in HintWriters : openssd_write_bio_hint(w, PackWriterLAddr(w), FALSE)
    \/ \E w \in HintWriters :
           openssd_alloc_phys_pack_addr_probe(w, PackWriterLAddr(w), FALSE)
    \/ \E w \in HintWriters : openssd_alloc_phys_pack_addr_take(w)
    \/ \E pl \in DOMAIN pools : openssd_endio_hint(pl)

SpecPack == InitPack /\ [][NextPack]_vars

----------------------------------------------------------------------------
(* Properties of SpecHint *)

\* the pool a physical address lies in
addr_pool(p_addr) == p_addr \div (os_nr_pages \div config.nr_pools)

\* writer w has finished a write that a latency hint covered
LatencyWriteDone(w) ==
    /\ rq[w].pc = "done"
    /\ rq[w].hint_info # NoHintInfo
    /\ "LATENCY" \in rq[w].hint_info.hint_flags

\* C11: in latency mode a write covered by a latency hint consumes exactly
\* two physical pages, and the two pages lie in different pools.
C11_DualWriteDistinctPools ==
    \A w \in DOMAIN rq :
        LatencyWriteDone(w) =>
            /\ Len(rq[w].p_addrs) = 2
            /\ addr_pool(rq[w].p_addrs[1]) # addr_pool(rq[w].p_addrs[2])

----------------------------------------------------------------------------
(* Properties of Spec, continued *)

\* C12: a read of a logical address that has never been written completes
\* at once with a zero-filled buffer: it is not submitted to the device, no
\* block reference is taken, and the maps, the block counters and the pools
\* (with their gates) are as before.
C12_ReadUnwritten ==
    [][ \A r \in ReqIds, l \in LAddrs :
          (ReadRq(r, l) /\ trans_map[l].block = NoBlock)
              => /\ rq'[r].pc = "idle"
                 /\ rq'[r].data = DataZero
                 /\ UNCHANGED << trans_map, rev_trans_map, blocks, pools >> ]_vars

\* C13: a request whose logical address sector / NR_PHY_IN_LOG is not below
\* the number of pages is rejected with an error and changes nothing: no
\* range lock, no allocation, maps and blocks as before.
C13_IllegalAddressRejected ==
    [][ \A r \in ReqIds, sector \in EdgeSectors :
          (vsl_queue_rq_error(r, sector) /\ sector \div NR_PHY_IN_LOG >= nr_pages)
              => /\ rq'[r].op = "error"
                 /\ rq'[r].pc = "idle"
                 /\ UNCHANGED << inflight, next_write_ap, trans_map, rev_trans_map,
                                 blocks, pools, aps, flash >> ]_vars

\* a request outside the device has been rejected while pages were mapped
C13_Witness ==
    \E r \in ReqIds :
        /\ rq[r].op = "error"
        /\ \E l \in LAddrs : trans_map[l].block # NoBlock

\* the append point the next write is given has a full block and its pool
\* has no free block
NoPageLeft ==
    LET a == get_next_ap(next_write_ap) IN
    block_is_full(blocks, aps[a].cur) /\ pools[ap_pool(a)].free_list = << >>

\* C14: a host write that cannot obtain a physical page is answered busy:
\* the collector is kicked, the range lock on L is released, and primary[L],
\* the reverse map and every block's bitmap and nr_invalid_pages are as
\* before the request.
C14_FailedWriteLeavesMaps ==
    [][ \A r \in ReqIds, l \in LAddrs :
          (WriteRq(r, l) /\ NoPageLeft)
              => /\ rq'[r].pc = "idle"
                 /\ gc_pending' = gc_pending \cup PoolIds
                 /\ l \notin inflight'
                 /\ trans_map' = trans_map
                 /\ rev_trans_map' = rev_trans_map
                 /\ \A b \in BlockIds :
                        /\ blocks'[b].invalid_pages = blocks[b].invalid_pages
                        /\ blocks'[b].nr_invalid_pages = blocks[b].nr_invalid_pages ]_vars

\* a write found no page: the collector is kicked and nothing is in flight
C14_Witness ==
    /\ NoPageLeft
    /\ gc_pending = PoolIds
    /\ inflight = {}
    /\ \A r \in ReqIds : rq[r].pc = "idle"
    /\ \E l \in LAddrs : trans_map[l].block # NoBlock

----------------------------------------------------------------------------
(* Properties of SpecHint, continued: the scenarios on the default target *)

\* scenario S2: fresh device with 2 pools of 4 blocks of 4 pages, one append
\* point per pool, default strategy, and L = 0 written four times
S2_Done ==
    /\ config = [ nr_pools |-> 2, nr_blks_per_pool |-> 4, nr_pages_per_blk |-> 4,
                  nr_aps_per_pool |-> 1, flags |-> {} ]
    /\ next_write_ap = 3
    /\ bug = "none"

\* C15 as stated: after the four writes block 0 has four invalid pages,
\* primary[0] points to block 1 slot 0, and a read of L = 0 returns the
\* value written last.
C15_S2_AsStated ==
    S2_Done =>
        /\ blocks[0].nr_invalid_pages = 4
        /\ trans_map[0] = [ addr |-> os_block_to_addr(1), block |-> 1 ]
        /\ read_bio_data(0) = Fresh(0)

\* C15 as the round-robin allocator has it: the writes alternate between
\* the append points of pool 0 (block 0) and pool 1 (block 4); after the
\* four writes block 0 has two invalid pages, block 4 has one, primary[0]
\* points to block 4 slot 1, and a read of L = 0 returns the value written
\* last.
C15_S2_RoundRobin ==
    S2_Done =>
        /\ blocks[0].nr_invalid_pages = 2
        /\ blocks[0].invalid_pages = { 0, 1 }
        /\ blocks[4].nr_invalid_pages = 1
        /\ blocks[4].invalid_pages = { 0 }
        /\ trans_map[0] = [ addr |-> os_block_to_addr(4) + 1, block |-> 4 ]
        /\ read_bio_data(0) = Fresh(0)

C15_Witness == S2_Done /\ rq[1].pc = "done" /\ rq[1].p_addrs = << 17 >>

----------------------------------------------------------------------------
(* SpecS3: scenario S3. The default target of 2 pools of 4 blocks of 4     *)
(* pages, a host that writes L = 0 .. 15 over and over and tries again     *)
(* when it is answered busy, the collector's work item per pool (queued by  *)
(* the kick of a failed write; nvm_gc_cb only re-arms its timer), and the  *)
(* device completing what a pool has in flight. The                        *)
(* collector selects victims while nr_blocks / GC_LIMIT_INVERSE exceeds    *)
(* nr_free_blocks, as nvm_gc_collect does.                                 *)

S3Config ==
    [ nr_pools |-> 2, nr_blks_per_pool |-> 4, nr_pages_per_blk |-> 4,
      nr_aps_per_pool |-> 1, flags |-> {} ]

\* the logical addresses the host of S3 goes through
S3Period == 16

InitS3 ==
    /\ InitHintWith(S3Config)

\* one write of the host, to the next logical address of its sequence
S3Write ==
    /\ bug = "none"
    /\ \E l_addr \in { host.written % S3Period } :
       \E st \in { openssd_alloc_map_ltop_rr(OsState, l_addr) } :
           /\ blocks' = st.blocks
           /\ aps' = st.aps
           \* get_next_ap uses the counter modulo nr_aps only: it is kept so
           /\ next_write_ap' = st.next_write_ap % os_nr_aps
           /\ trans_map' = st.trans_map
           /\ rev_trans_map' = st.rev_trans_map
           /\ IF st.addr = LTOP_EMPTY
              THEN \* no page: the collector is kicked, the host tries again
                   /\ gc_pending' = DOMAIN pools
                   /\ pools' = st.pools
                   /\ UNCHANGED << flash, host >>
              ELSE /\ pools' = [ st.pools EXCEPT
                                   ![os_block_pool(st.block)].is_active = 1 ]
                   /\ flash' = [ Supersede(flash, l_addr) EXCEPT
                                   ![st.addr] = Fresh(l_addr) ]
                   /\ host' = [ host EXCEPT !.written = @ + 1 ]
                   /\ UNCHANGED gc_pending
    /\ UNCHANGED << inflight, rq, gc_wq, gc, programmed, bug, next_collect_pool,
                    hint_private, config >>

\* nvm_gc_collect for pool pl of the target in config
S3Collect(pl) ==
    /\ bug = "none"
    /\ pl \in gc_pending
    /\ \E st \in { nvm_gc_collect_loop(
                        GcLoopState(blocks, pools[pl].prio_list, gc_wq, "none"),
                        pools[pl].nr_blocks \div GC_LIMIT_INVERSE,
                        pools[pl].nr_free_blocks) } :
           /\ blocks' = st.blocks
           /\ pools' = [ pools EXCEPT ![pl].prio_list = st.prio ]
           /\ gc_wq' = st.wq
           /\ bug' = st.bug
    /\ gc_pending' = gc_pending \ { pl }
    /\ next_collect_pool' = (next_collect_pool + 1) % config.nr_pools
    /\ UNCHANGED << trans_map, rev_trans_map, aps, next_write_ap, inflight, flash,
                    rq, gc, programmed, host, hint_private, config >>

NextS3 ==
    \/ S3Write
    \/ \E pl \in DOMAIN pools : S3Collect(pl)
    \/ \E pl \in DOMAIN pools : openssd_endio_hint(pl)

\* the host keeps writing, queued work items run, the device completes
FairS3 ==
    /\ WF_vars(S3Write)
    /\ \A pl \in { 0, 1 } : WF_vars(S3Collect(pl))
    /\ \A pl \in { 0, 1 } : WF_vars(openssd_endio_hint(pl))

SpecS3 == InitS3 /\ [][NextS3]_vars /\ FairS3

----------------------------------------------------------------------------
(* Properties of SpecS3 *)

\* pool 0 is full: its append point's block is full and no block is free,
\* while some block of the pool has invalid pages
S3_Pool0Full ==
    /\ os_block_is_full(blocks[aps[0].cur])
    /\ pools[0].free_list = << >>
    /\ \E b \in DOMAIN blocks : os_block_pool(b) = 0 /\ blocks[b].nr_invalid_pages > 0

\* C16: in scenario S3, once pool 0 is full with invalid pages in it and its
\* collector has been triggered, a block of pool 0 comes back to the free
\* list (and the host's next write can be served).
C16_S3_GcFreesBlock ==
    (S3_Pool0Full /\ 0 \in gc_pending) ~> (pools[0].nr_free_blocks > 0)

----------------------------------------------------------------------------
(* Properties of SpecHint: the swap engine *)

\* the next page of append point a's block exists and is fast
ApNextPageFast(a) ==
    LET blk == blocks[aps[a].cur] IN
    /\ ~ os_block_is_full(blk)
    /\ page_is_fast(IF blk.next_offset = NR_HOST_PAGES_IN_FLASH_PAGE
                    THEN blk.next_page + 1 ELSE blk.next_page)

\* a write step of writer 1 served under a pending swap hint
SwapHintedWrite ==
    /\ "SWAP" \in config.flags
    /\ rq'[1] # rq[1]
    /\ rq'[1].hint_info # NoHintInfo

\* C17: in swap mode a write covered by a pending swap hint is mapped to a
\* valid physical page, a fast one whenever some append point's next page
\* is fast.
C17_SwapHintFastPage ==
    [][ SwapHintedWrite =>
           /\ rq'[1].p_addrs[1] \in 0 .. (os_nr_pages - 1)
           /\ trans_map'[rq'[1].l_addr].addr = rq'[1].p_addrs[1]
           /\ (\E a \in DOMAIN aps : ApNextPageFast(a))
                 => page_is_fast(physical_to_slot(rq'[1].p_addrs[1])) ]_vars

----------------------------------------------------------------------------
(* Properties of SpecHint: the latency engine's lookup *)

\* writer w has finished a latency-hinted write and both maps still hold
\* the two pages of that write
LatencyPairIntact(w) ==
    /\ LatencyWriteDone(w)
    /\ trans_map[rq[w].l_addr].addr = rq[w].p_addrs[1]
    /\ hint_private.shadow_map[rq[w].l_addr].addr = rq[w].p_addrs[2]

\* C18: in latency mode, after a latency-hinted write of L both primary[L]
\* and shadow[L] are populated, lookup_ltop(L) is the shadow entry when the
\* pool of the primary page is active and the primary entry otherwise, and
\* the read returns the written data in both cases.
C18_LatencyLookup ==
    \A w \in DOMAIN rq :
        LatencyPairIntact(w) =>
            LET l_addr == rq[w].l_addr
                primary == trans_map[l_addr]
                shadow == hint_private.shadow_map[l_addr]
            IN  /\ primary.addr \in 0 .. (os_nr_pages - 1)
                /\ shadow.addr \in 0 .. (os_nr_pages - 1)
                /\ primary.block # NoBlock
                /\ shadow.block # NoBlock
                /\ os_lookup_ltop(l_addr) =
                       IF pools[os_block_pool(primary.block)].is_active = 1
                       THEN shadow ELSE primary
                /\ flash[primary.addr] = Fresh(l_addr)
                /\ flash[shadow.addr] = Fresh(l_addr)
                /\ read_bio_data(l_addr) = Fresh(l_addr)

\* a latency-hinted write is complete, its primary page's pool is busy and
\* the lookup answers with the shadow page, which is another page
C18_Witness ==
    \E w \in DOMAIN rq :
        /\ LatencyPairIntact(w)
        /\ pools[os_block_pool(trans_map[rq[w].l_addr].block)].is_active = 1
        /\ os_lookup_ltop(rq[w].l_addr).addr = rq[w].p_addrs[2]
        /\ rq[w].p_addrs[2] # rq[w].p_addrs[1]

----------------------------------------------------------------------------
(* Properties of SpecPack *)

\* writer w completes a pack-hinted write in this step with a page of a
\* pack append point
PackHintedWrite(w) ==
    /\ rq'[w] # rq[w]
    /\ rq'[w].pc = "done"
    /\ rq'[w].hint_info # NoHintInfo
    /\ aps[rq'[w].aps[1]].hint_private # NoApHint

\* C19: pack-hinted writes of different inodes within AP_DISASSOCIATE_TIME
\* go through disjoint pack append points: a pack append point that is
\* associated with an inode gives no page to a write of another inode.
C19_PackApsDisjoint ==
    [][ \A w \in DOMAIN rq :
           PackHintedWrite(w) =>
               aps[rq'[w].aps[1]].hint_private.ino
                   \in { INODE_EMPTY, rq'[w].hint_info.ino } ]_vars

----------------------------------------------------------------------------
(* Properties of SpecHint: the pack engine and writes without a hint *)

\* writer w completes a write that no hint covers, in the pack target
PackUnhintedWrite(w) ==
    /\ "PACK" \in config.flags
    /\ rq'[w] # rq[w]
    /\ rq'[w].pc = "done"
    /\ rq'[w].hint_info = NoHintInfo

\* C20: in pack mode an allocation that is not pack-hinted never takes its
\* page from a pack append point.
C20_UnhintedSkipsPackAps ==
    [][ \A w \in DOMAIN rq :
           PackUnhintedWrite(w) =>
               aps[rq'[w].aps[1]].hint_private = NoApHint ]_vars

----------------------------------------------------------------------------
(* Properties of SpecHint: the append points' current blocks *)

\* C21: in every reachable state each append point's cur is a block, is on
\* the used list of the append point's own pool, and cur.ap refers back to
\* the append point.
C21_ApCurInvariant ==
    \A a \in DOMAIN aps :
        /\ aps[a].cur # NoBlock
        /\ InSeq(aps[a].cur, pools[os_ap_pool(a)].used_list)
        /\ blocks[aps[a].cur].ap = a

----------------------------------------------------------------------------
(* SpecPrio: block_prio_find_max on every priority list over NrPrioBlocks   *)
(* blocks, in every order, with every count of invalid pages per block.     *)

PrioBlockIds == 0 .. (NrPrioBlocks - 1)

\* the non-empty lists of distinct blocks
PrioLists ==
    { l \in UNION { [ 1 .. n -> PrioBlockIds ] : n \in 1 .. NrPrioBlocks } :
        \A i, j \in 1 .. Len(l) : i # j => l[i] # l[j] }

InitPrio ==
    /\ \E inv \in [ PrioBlockIds -> 0 .. MaxPrioInvalid ] :
          blocks = [ b \in PrioBlockIds |->
                       [ FreshBlock EXCEPT !.nr_invalid_pages = inv[b] ] ]
    /\ \E l \in PrioLists :
          pools = [ p \in { 0 } |->
                      [ free_list |-> << >>, used_list |-> l, prio_list |-> l,
                        nr_blocks |-> NrPrioBlocks, nr_free_blocks |-> 0,
                        is_active |-> 0, waiting_bios |-> << >>, waiting_ws |-> 0 ] ]
    /\ trans_map = << >>
    /\ rev_trans_map = << >>
    /\ aps = << >>
    /\ next_write_ap = -1
    /\ next_collect_pool = 0
    /\ hint_private = NoHintPrivate
    /\ config = DefaultConfig
    /\ bug = "none"
    /\ inflight = {}
    /\ flash = << >>
    /\ rq = << >>
    /\ gc_pending = {}
    /\ gc_wq = << >>
    /\ gc = IdleGc
    /\ programmed = {}
    /\ host = NoHost

\* the collector asks for the victim of pool 0
prio_find_max ==
    /\ gc.pc = "idle"
    /\ gc' = [ IdleGc EXCEPT !.pc = "selected",
                             !.block = block_prio_find_max(blocks, pools[0].prio_list) ]
    /\ UNCHANGED << trans_map, rev_trans_map, blocks, pools, aps, next_write_ap,
                    inflight, flash, rq, gc_pending, gc_wq, programmed, bug, host,
                    next_collect_pool, hint_private, config >>

NextPrio == prio_find_max

SpecPrio == InitPrio /\ [][NextPrio]_vars

----------------------------------------------------------------------------
(* Properties of SpecPrio *)

\* the position of block b on list l
PrioPos(l, b) == CHOOSE i \in 1 .. Len(l) : l[i] = b

\* the victim is on the list and no block of the list has more invalid pages
VictimIsMax ==
    /\ InSeq(gc.block, pools[0].prio_list)
    /\ \A b \in SeqToSet(pools[0].prio_list) :
          blocks[b].nr_invalid_pages <= blocks[gc.block].nr_invalid_pages

\* the blocks of the list with as many invalid pages as the victim
VictimTies ==
    { b \in SeqToSet(pools[0].prio_list) :
        blocks[b].nr_invalid_pages = blocks[gc.block].nr_invalid_pages }

\* C22 as stated: the victim has the most invalid pages of the priority list
\* and, among the blocks with as many, the lowest block id, in every order
\* of the list.
C22_LowestIdOnTie ==
    gc.pc = "selected" =>
        /\ VictimIsMax
        /\ \A b \in VictimTies : gc.block <= b

\* C22 amended: the victim has the most invalid pages of the priority list
\* and, among the blocks with as many, it is the one nearest the head of
\* the list.
C22_FirstOnTie ==
    gc.pc = "selected" =>
        /\ VictimIsMax
        /\ \A b \in VictimTies :
              PrioPos(pools[0].prio_list, gc.block) <= PrioPos(pools[0].prio_list, b)

\* a victim was selected among several blocks with as many invalid pages,
\* one of which has a lower id and comes later on the list
C22_Witness ==
    /\ gc.pc = "selected"
    /\ \E b \in VictimTies : b < gc.block

-----------------------------------------------------------------------------
(* SpecV0Wide: the first generation (part_000) again, with host writes to  *)
(* three logical addresses, so that a block can fill up with pages that    *)
(* are all still mapped.                                                   *)

LAddrsV0 == 0 .. (NrLAddrsV0 - 1)

NextV0Wide ==
    \/ \E l \in LAddrsV0 :
         /\ next_write_ap < MaxAllocV0Wide - 1
         /\ openssd_map_ltop_rr(l)
    \/ openssd_kthread

SpecV0Wide == InitV0 /\ [][NextV0Wide]_vars

-----------------------------------------------------------------------------
(* SpecGc: the collector of the dm-openssd generation (part_003), which    *)
(* openssd_alloc_addr_retries enters in the writer's context when          *)
(* os->map_ltop finds no page, on the allocator and the engines of the     *)
(* hint model.  The collector holds os->gc_lock from its first pool to its *)
(* last; the host's writes are not excluded by that lock and run between   *)
(* the collector's steps.                                                  *)

\* part_003: a pool is collected unless nr_blocks / 2 < nr_free_blocks
GC_LIMIT_INVERSE_CORE == 2

GcLatencyConfig ==
    [ nr_pools |-> 2, nr_blks_per_pool |-> 3, nr_pages_per_blk |-> 2,
      nr_aps_per_pool |-> 1, flags |-> { "LATENCY" } ]

LAddrsGc == 0 .. (NrLAddrsGc - 1)

\* the addresses a latency hint covers: writes of them are made in two copies
GcLatencyLAddrs == { 0 }

InitGc == InitHintWith(GcLatencyConfig)

\* the collector in pool pid, with left pools of its round to go
GcAtPool(pid, left) ==
    [ pc |-> "pool", pid |-> pid, left |-> left, block |-> NoBlock, slot |-> 0,
      l_addr |-> 0, flags |-> "none" ]

\* the label finished: the next pool, or the end of openssd_gc_collect; block
\* and slot keep what the turn left in them
GcFinished ==
    IF gc.left = 1 THEN IdleGc
    ELSE [ gc EXCEPT !.pc = "pool", !.pid = (gc.pid + 1) % config.nr_pools,
                     !.left = gc.left - 1 ]

\* os->next_collect_pool++ at the end of the round (kept modulo nr_pools,
\* which is all the collector reads of it)
GcFinishedNextCollect ==
    IF gc.left = 1 THEN (next_collect_pool + 1) % config.nr_pools
    ELSE next_collect_pool

\* find_next_zero_bit(bits, os->nr_host_pages_in_blk, from)
os_find_next_zero_bit(bits, from) ==
    IF \E s \in from .. (os_nr_host_pages_in_blk - 1) : s \notin bits
    THEN CHOOSE s \in from .. (os_nr_host_pages_in_blk - 1) :
            /\ s \notin bits
            /\ \A t \in from .. (s - 1) : t \in bits
    ELSE os_nr_host_pages_in_blk

\* the state after an allocation or mapping function, taken over
OsCommit(st) ==
    /\ blocks' = st.blocks
    /\ pools' = st.pools
    /\ aps' = st.aps
    /\ next_write_ap' = st.next_write_ap % os_nr_aps
    /\ trans_map' = st.trans_map
    /\ rev_trans_map' = st.rev_trans_map
    /\ hint_private' = [ hint_private EXCEPT !.shadow_map = st.shadow_map ]

\* openssd_write_bio_generic / openssd_write_bio_hint through
\* openssd_alloc_addr_retries: a write of l_addr in numCopies copies (2 for a
\* latency write).  When map_ltop finds no page the writer enters
\* openssd_gc_collect, provided it gets os->gc_lock, and the write is tried
\* again later.
openssd_alloc_addr_retries(l_addr, numCopies) ==
    /\ bug = "none"
    /\ host.written < MaxGcWrites
    /\ host' = [ host EXCEPT !.written = @ + 1 ]
    /\ numCopies = 2 => ("LATENCY" \in config.flags /\ l_addr \in GcLatencyLAddrs)
    /\ \E st0 \in { os_map_ltop(OsState, l_addr, NoHintInfo, "MAP_PRIMARY", FALSE) } :
       \E st1 \in { IF "LATENCY" \in config.flags /\ st0.addr # LTOP_EMPTY
                    THEN openssd_trim_map_shadow(st0, l_addr) ELSE st0 } :
       \E st \in { IF numCopies = 2 /\ st0.addr # LTOP_EMPTY
                   THEN os_map_ltop(st1, l_addr, NoHintInfo, "MAP_SHADOW", FALSE)
                   ELSE st1 } :
           /\ OsCommit(st)
           /\ gc' = IF st.addr = LTOP_EMPTY /\ gc.pc = "idle"
                    THEN GcAtPool(next_collect_pool % config.nr_pools, config.nr_pools)
                    ELSE gc
    /\ UNCHANGED << inflight, flash, rq, gc_pending, gc_wq, programmed, bug,
                    next_collect_pool, config >>

\* one turn of openssd_gc_collect's loop over the pools, up to the call of
\* openssd_move_valid_pages
openssd_gc_collect ==
    /\ bug = "none"
    /\ gc.pc = "pool"
    /\ \E pid \in { gc.pid } :
       \E nr_blocks_need \in { pools[pid].nr_blocks \div GC_LIMIT_INVERSE_CORE } :
          IF nr_blocks_need < pools[pid].nr_free_blocks
          THEN /\ gc' = GcFinished
               /\ next_collect_pool' = GcFinishedNextCollect
               /\ UNCHANGED << pools, bug >>
          ELSE IF pools[pid].prio_list = << >>
          THEN \* list_first_entry of an empty list
               /\ bug' = "block_prio_find_max"
               /\ UNCHANGED << pools, gc, next_collect_pool >>
          ELSE \E block \in { block_prio_find_max(blocks, pools[pid].prio_list) } :
               IF blocks[block].nr_invalid_pages = 0
               THEN \* list_del, then list_add: the block is now the first
                    /\ pools' = [ pools EXCEPT ![pid].prio_list =
                                      << block >> \o ListDel(@, block) ]
                    /\ gc' = GcFinished
                    /\ next_collect_pool' = GcFinishedNextCollect
                    /\ bug' = bug
               ELSE /\ pools' = [ pools EXCEPT ![pid].prio_list = ListDel(@, block) ]
                    /\ next_collect_pool' = next_collect_pool
                    /\ IF ~ os_block_is_full(blocks[block])
                       THEN \* BUG_ON(!block_is_full(block))
                            /\ bug' = "gc_block_not_full"
                            /\ gc' = [ gc EXCEPT !.block = block ]
                       ELSE /\ bug' = bug
                            /\ gc' = [ gc EXCEPT !.pc = "move", !.block = block,
                                                 !.slot = -1 ]
    /\ UNCHANGED << trans_map, rev_trans_map, blocks, aps, next_write_ap, inflight,
                    flash, rq, gc_pending, gc_wq, programmed, host, hint_private,
                    config >>

\* openssd_block_release, which kref_put calls for the collector's block:
\* the erase, and nvm_pool_put_block
openssd_block_release(pool, b) ==
    [ pool EXCEPT !.used_list = ListDel(@, b),
                  !.free_list = ListMoveTail(@, b),
                  !.nr_free_blocks = @ + 1 ]

os_bitmap_full_any(bits) == TRUE

\* bitmap_full(block->invalid_pages, os->nr_host_pages_in_blk)
os_bitmap_full(bits) == bits = 0 .. (os_nr_host_pages_in_blk - 1)

\* openssd_move_valid_pages: find_next_zero_bit and lookup_ptol for the page
\* found; after the last page the BUG_ON on the bitmap and, back in
\* openssd_gc_collect, kref_put
openssd_move_valid_pages ==
    /\ bug = "none"
    /\ gc.pc = "move"
    /\ \E slot \in { os_find_next_zero_bit(blocks[gc.block].invalid_pages,
                                           gc.slot + 1) } :
          IF slot < os_nr_host_pages_in_blk
          THEN /\ gc' = [ gc EXCEPT !.pc = "map", !.slot = slot,
                                    !.l_addr = rev_trans_map[
                                        os_block_to_addr(gc.block) + slot] ]
               /\ UNCHANGED << pools, bug, next_collect_pool >>
          ELSE IF ~ os_bitmap_full(blocks[gc.block].invalid_pages)
          THEN \* BUG_ON(!bitmap_full(block->invalid_pages, ...))
               /\ bug' = "gc_bitmap_not_full"
               /\ UNCHANGED << pools, gc, next_collect_pool >>
          ELSE /\ pools' = [ pools EXCEPT ![gc.pid] =
                                openssd_block_release(@, gc.block) ]
               /\ gc' = GcFinished
               /\ next_collect_pool' = GcFinishedNextCollect
               /\ bug' = bug
    /\ UNCHANGED << trans_map, rev_trans_map, blocks, aps, next_write_ap, inflight,
                    flash, rq, gc_pending, gc_wq, programmed, host, hint_private,
                    config >>

\* a flag that takes every page for the primary copy
openssd_get_mapping_flag_primary(st, l_addr, old_p_addr) == "MAP_PRIMARY"

\* openssd_get_mapping_flag: which map the page old_p_addr serves l_addr from
openssd_get_mapping_flag(st, l_addr, old_p_addr) ==
    IF st.trans_map[l_addr].addr = old_p_addr THEN "MAP_PRIMARY"
    ELSE IF st.shadow_map[l_addr].addr = old_p_addr THEN "MAP_SHADOW"
    ELSE "MAP_PRIMARY"

\* os->map_ltop for the collector's write of l_addr, whose page is old_p_addr
os_map_ltop_gc(st, l_addr, old_p_addr) ==
    IF l_addr \notin DOMAIN st.trans_map
    THEN \* no map entry to update
         openssd_alloc_ltop_rr(st)
    ELSE IF "LATENCY" \in config.flags
    THEN openssd_map_latency_hint_ltop_rr(
             st, l_addr, openssd_get_mapping_flag(st, l_addr, old_p_addr))
    ELSE openssd_alloc_map_ltop_rr(st, l_addr)

\* map_alloc_data->flags of the collector's write, as
\* openssd_map_latency_hint_ltop_rr sets it with is_gc
GcPrivateFlags(l_addr, old_p_addr) ==
    IF "LATENCY" \in config.flags /\ l_addr \in DOMAIN trans_map
    THEN openssd_get_mapping_flag(OsState, l_addr, old_p_addr)
    ELSE gc.flags

\* openssd_move_valid_pages: the write of the page just read
openssd_move_valid_pages_write ==
    /\ bug = "none"
    /\ gc.pc = "map"
    /\ \E st \in { os_map_ltop_gc(OsState, gc.l_addr,
                                  os_block_to_addr(gc.block) + gc.slot) } :
           /\ OsCommit(st)
           /\ gc' = [ gc EXCEPT !.pc = "move",
                                !.flags = GcPrivateFlags(
                                    gc.l_addr, os_block_to_addr(gc.block) + gc.slot) ]
    /\ UNCHANGED << inflight, flash, rq, gc_pending, gc_wq, programmed, bug, host,
                    next_collect_pool, config >>

NextGc ==
    \/ \E l \in LAddrsGc, numCopies \in 1 .. 2 : openssd_alloc_addr_retries(l, numCopies)
    \/ openssd_gc_collect
    \/ openssd_move_valid_pages
    \/ openssd_move_valid_pages_write

SpecGc == InitGc /\ [][NextGc]_vars

-----------------------------------------------------------------------------
(* Properties of SpecGc *)

\* the entries of the primary and of the shadow map
MapEntries ==
    { trans_map[l] : l \in DOMAIN trans_map }
        \cup { hint_private.shadow_map[l] : l \in DOMAIN trans_map }

\* block b is on its pool's free list
OnFreeList(pl, b) == InSeq(b, pl[os_block_pool(b)].free_list)

-----------------------------------------------------------------------------
(* SpecSel: victim selection by nvm_gc_collect (part_002) in a target of   *)
(* one pool with up to three append points, the constructor's              *)
(* nr_aps_per_pool argument (dm-openssd-mod.c 355-362).  The relocation    *)
(* jobs the collector queues on kgc_wq are not followed.                   *)

SelConfig(nr_blks, aps_per_pool) ==
    [ nr_pools |-> 1, nr_blks_per_pool |-> nr_blks, nr_pages_per_blk |-> 2,
      nr_aps_per_pool |-> aps_per_pool, flags |-> {} ]

InitSel ==
    \E nr_blks \in SelBlksPerPool, aps_per_pool \in 1 .. MaxSelAps :
        InitHintWith(SelConfig(nr_blks, aps_per_pool))

\* a write of the host to l_addr: allocation and mapping by
\* openssd_alloc_map_ltop_rr; without a page the collector is kicked
nvm_write_rr(l_addr) ==
    /\ bug = "none"
    /\ \E st \in { openssd_alloc_map_ltop_rr(OsState, l_addr) } :
           /\ blocks' = st.blocks
           /\ aps' = st.aps
           /\ next_write_ap' = st.next_write_ap % os_nr_aps
           /\ trans_map' = st.trans_map
           /\ rev_trans_map' = st.rev_trans_map
           /\ IF st.addr = LTOP_EMPTY
              THEN /\ gc_pending' = DOMAIN pools
                   /\ pools' = st.pools
              ELSE /\ pools' = [ st.pools EXCEPT
                                   ![os_block_pool(st.block)].is_active = 1 ]
                   /\ UNCHANGED gc_pending
    /\ UNCHANGED << inflight, flash, rq, gc_wq, gc, programmed, bug, host,
                    next_collect_pool, hint_private, config >>

NextSel ==
    \/ \E l \in 0 .. (NrLAddrsSel - 1) : nvm_write_rr(l)
    \/ \E pl \in DOMAIN pools : S3Collect(pl)
    \/ \E pl \in DOMAIN pools : openssd_endio_hint(pl)

SpecSel == InitSel /\ [][NextSel]_vars


\* C24: neither assertion of the collector's selection fails: every block it
\* selects is full, and none is selected while its gc_running is set
C24_SelectionAssertionsHold ==
    bug \notin { "gc_block_not_full", "gc_running" }


-----------------------------------------------------------------------------
(* Properties of Spec: nvm_pool_put_block *)

\* a step puts block b back: it enters its pool's free list
PutBlockStep(b) ==
    /\ InSeq(b, pools'[block_pool(b)].free_list)
    /\ ~ InSeq(b, pools[block_pool(b)].free_list)

\* what every put_block leaves of the lists: the block is off the used and
\* the priority list and is the last of the free list
PutBlockLists(b) ==
    /\ ~ InSeq(b, pools'[block_pool(b)].used_list)
    /\ ~ InSeq(b, pools'[block_pool(b)].prio_list)
    /\ pools'[block_pool(b)].free_list[Len(pools'[block_pool(b)].free_list)] = b

-----------------------------------------------------------------------------
(* Properties of Spec: the references on a victim *)

\* the blocks the collector has selected and not yet put back
GcSelected == { b \in BlockIds : /\ blocks[b].gc_running # 0
                                 /\ InSeq(b, pools[block_pool(b)].used_list) }

\* the blocks whose relocation job is running or waits on kgc_wq
GcJobs == SeqToSet(gc_wq) \cup (IF gc.pc = "idle" THEN {} ELSE { gc.block })

-----------------------------------------------------------------------------
(* Properties of Spec: the relocation write *)

-----------------------------------------------------------------------------
(* Properties of SpecGc: the two copies of a latency write *)

\* the page the collector is about to write again
GcOldPage == os_block_to_addr(gc.block) + gc.slot

\* the step is the collector's write of page GcOldPage
GcWriteStep == gc.pc = "map" /\ gc'.pc = "move"

\* the bits of the invalid-page bitmaps that the step sets, as pages
NewlyInvalid ==
    { os_block_to_addr(b) + s :
        b \in { c \in DOMAIN blocks :
                  blocks'[c].invalid_pages # blocks[c].invalid_pages },
        s \in 0 .. (os_nr_host_pages_in_blk - 1) } \cap
    { p \in 0 .. (os_nr_pages - 1) :
        LET b == p \div os_nr_host_pages_in_blk
            s == p % os_nr_host_pages_in_blk
        IN  s \in blocks'[b].invalid_pages /\ s \notin blocks[b].invalid_pages }

-----------------------------------------------------------------------------
(* Properties of SpecHint: the trimmed shadow entry *)

\* C30: in latency mode a shadow entry without a block is the empty
\* sentinel, and while primary[L] is populated lookup_ltop(L) answers with
\* an entry that has a block and whose page has not been invalidated,
\* whether the pool of the primary page is busy or not
C30_TrimmedShadowAbsent ==
    ( "LATENCY" \in config.flags /\ "SWAP" \notin config.flags ) =>
        \A l \in DOMAIN trans_map :
            trans_map[l].block # NoBlock =>
                /\ hint_private.shadow_map[l].block = NoBlock
                     => hint_private.shadow_map[l].addr = LTOP_EMPTY
                /\ os_lookup_ltop(l).block # NoBlock
                /\ (os_lookup_ltop(l).addr % os_nr_host_pages_in_blk)
                       \notin blocks[os_lookup_ltop(l).block].invalid_pages


-----------------------------------------------------------------------------
(* SpecV0Full: the first generation (part_000) with the collector thread   *)
(* asleep (it sleeps GC_TIME seconds between two rounds), while the host   *)
(* writes until both pools have handed out their last block: to any        *)
(* address at first, then to address 0 again and again.                    *)

\* the addresses of the host's next write
LAddrsV0Full ==
    IF next_write_ap + 1 < FreeWritesV0Full THEN LAddrs ELSE { 0 }

NextV0Full ==
    \E l \in LAddrsV0Full :
        /\ next_write_ap < MaxAllocV0Full
        /\ openssd_map_ltop_rr(l)

SpecV0Full == InitV0 /\ [][NextV0Full]_vars

\* the pages of block b
BlockPagesV0(b) ==
    block_to_addr_v0(b) .. (block_to_addr_v0(b) + NrPagesPerBlkV0 - 1)

\* C31: the page cursor of a block never exceeds the number of pages of the
\* block, every address handed out lies in its block's own range and no
\* address is handed out twice (no two logical addresses are mapped to the
\* same page), however the callers interleave
C31_AllocPhysAddr ==
    /\ \A b \in BlockIdsV0 : blocks[b].next_page <= NrPagesPerBlkV0
    /\ \A l \in DOMAIN trans_map :
          trans_map[l].block # NoBlock
            => trans_map[l].addr \in BlockPagesV0(trans_map[l].block)
    /\ \A l1, l2 \in DOMAIN trans_map :
          ( /\ l1 # l2
            /\ trans_map[l1].block # NoBlock
            /\ trans_map[l2].block # NoBlock )
            => trans_map[l1].addr # trans_map[l2].addr


-----------------------------------------------------------------------------
(* SpecAp: get_next_ap on the 32-bit counter next_write_ap, for targets of *)
(* one to MaxAps append points.  The counter starts at -1, as the          *)
(* constructor sets it, or where 2^31 - 1 - k writes have brought it.      *)

ApCounters == { 0 - 1 } \cup { INT_MAX - k : k \in 0 .. ApWindow }

ApConfig(aps_per_pool) ==
    [ nr_pools |-> 1, nr_blks_per_pool |-> 2 * aps_per_pool, nr_pages_per_blk |-> 2,
      nr_aps_per_pool |-> aps_per_pool, flags |-> {} ]

InitAp ==
    /\ \E aps_per_pool \in 1 .. MaxAps : config = ApConfig(aps_per_pool)
    /\ next_write_ap \in ApCounters
    /\ trans_map = << >>
    /\ rev_trans_map = << >>
    /\ blocks = << >>
    /\ pools = << >>
    /\ aps = << >>
    /\ next_collect_pool = 0
    /\ hint_private = NoHintPrivate
    /\ bug = "none"
    /\ inflight = {}
    /\ flash = << >>
    /\ rq = << >>
    /\ gc_pending = {}
    /\ gc_wq = << >>
    /\ gc = IdleGc
    /\ programmed = {}
    /\ host = NoHost

\* a writer calls get_next_ap: rq holds the index of the append point it gets
get_next_ap_call ==
    /\ host.written < MaxApCalls
    /\ host' = [ host EXCEPT !.written = @ + 1 ]
    /\ next_write_ap' = atomic_inc_return(next_write_ap)
    /\ rq' = << [ pc |-> "ap",
                  ap |-> c_rem(atomic_inc_return(next_write_ap), os_nr_aps) ] >>
    /\ UNCHANGED << trans_map, rev_trans_map, blocks, pools, aps, inflight, flash,
                    gc_pending, gc_wq, gc, programmed, bug, next_collect_pool,
                    hint_private, config >>

NextAp == get_next_ap_call

SpecAp == InitAp /\ [][NextAp]_vars

\* C32: the index get_next_ap computes is an index of os->aps, also after
\* the counter has wrapped
C32_ApIndexInRange ==
    \A r \in DOMAIN rq : rq[r].ap \in 0 .. (os_nr_aps - 1)


-----------------------------------------------------------------------------
(* Properties of Spec: the order of the free list *)

\* C33: the free blocks of a pool are reused first in, first out: a step
\* either leaves a pool's free list alone, or takes its head (get_block), or
\* appends one block that was not on it (put_block); so a block that the
\* collector returns is handed out only after every block that was free then
C33_FreeListFifo ==
    [][ \A p \in PoolIds :
          \/ pools'[p].free_list = pools[p].free_list
          \/ /\ pools[p].free_list # << >>
             /\ pools'[p].free_list = Tail(pools[p].free_list)
             /\ InSeq(Head(pools[p].free_list), pools'[p].used_list)
          \/ \E b \in BlockIds :
                /\ ~ InSeq(b, pools[p].free_list)
                /\ pools'[p].free_list = Append(pools[p].free_list, b) ]_vars

\* the append point writes to a block again that the collector has returned
\* (block 0, its first block), while blocks returned after it wait on the
\* free list
C33_Witness ==
    \E a \in ApIds :
        /\ aps[a].cur = InitCur(a)
        /\ blocks[aps[a].cur].gc_running = 0
        /\ Len(pools[ap_pool(a)].free_list) >= 2
        /\ \A i \in 1 .. Len(pools[ap_pool(a)].free_list) :
              blocks[pools[ap_pool(a)].free_list[i]].gc_running = 1


-----------------------------------------------------------------------------
(* SpecGate: the write path of dm-openssd-core.c as in SpecCore, with the  *)
(* two unlocked accesses of the pool's gate as steps of their own:         *)
(* openssd_submit_bio reads is_active and acts on what it read later, and  *)
(* openssd_endio peeks at waiting_bios and acts on what it saw later.      *)

\* openssd_write_bio_generic up to the atomic_read(&pool->is_active) of
\* openssd_submit_bio: the page is allocated, mapped and buffered
openssd_write_bio_generic_to_gate(r, l) ==
    /\ bug = "none"
    /\ rq[r].pc = "idle" /\ ~Waiting(r)
    /\ next_write_ap < MaxCoreAlloc
    /\ LET a == get_next_ap(next_write_ap)
           p == nvm_alloc_addr_from_ap(blocks, pools, aps, a)
           b == AllocBlock(blocks, pools, aps, a)
           bl1 == nvm_alloc_addr_from_ap_blocks(blocks, pools, aps, a)
           pl1 == nvm_alloc_addr_from_ap_pools(blocks, pools, aps, a)
       IN  /\ next_write_ap' = next_write_ap + 1
           /\ aps' = nvm_alloc_addr_from_ap_aps(blocks, pools, aps, a)
           /\ pools' = pl1
           /\ IF p = LTOP_EMPTY
              THEN /\ bug' = "openssd_gc_collect"
                   /\ blocks' = bl1
                   /\ UNCHANGED << trans_map, rev_trans_map, flash, rq, programmed >>
              ELSE /\ blocks' = [ openssd_update_map_generic_blocks(trans_map, bl1, l)
                                    EXCEPT ![b].data_size = @ + 1 ]
                   /\ rev_trans_map' = openssd_update_map_generic_rev(rev_trans_map, l, p)
                   /\ trans_map' = openssd_update_map_generic(trans_map, l, p, b)
                   /\ rq' = [ rq EXCEPT ![r] =
                                 [ pc |-> "gate", op |-> "write", l |-> l, addr |-> p,
                                   block |-> b, data |-> Fresh(l),
                                   seen |-> pl1[ap_pool(block_to_ap(b))].is_active ] ]
                   /\ flash' = Supersede(flash, l)
                   /\ programmed' = programmed \cup { p }
                   /\ bug' = bug
    /\ UNCHANGED << inflight, gc_pending, gc_wq, gc, host,
                    next_collect_pool, hint_private, config >>

\* openssd_submit_bio after the read of is_active: the bio is added to
\* waiting_bios or the gate is claimed, and submit_bio runs on either branch
openssd_submit_bio_after_read(r) ==
    /\ bug = "none"
    /\ rq[r].pc = "gate"
    /\ pools' = [ pools EXCEPT ![ap_pool(block_to_ap(rq[r].block))] =
                     IF NVM_OPT_POOL_SERIALIZE /\ rq[r].seen # 0
                     THEN [ @ EXCEPT !.waiting_bios = Append(@, r) ]
                     ELSE [ @ EXCEPT !.is_active = 1 ] ]
    /\ rq' = [ rq EXCEPT ![r].pc = "submitted" ]
    /\ UNCHANGED << trans_map, rev_trans_map, blocks, aps, next_write_ap, inflight,
                    flash, gc_pending, gc_wq, gc, programmed, bug, host,
                    next_collect_pool, hint_private, config >>

\* the device completes bio r: openssd_endio up to its
\* bio_list_peek(&pool->waiting_bios)
openssd_endio_to_peek(r) ==
    /\ bug = "none"
    /\ rq[r].pc = "submitted"
    /\ blocks' = openssd_put_block(blocks, rq[r].block)
    /\ flash' = [ flash EXCEPT ![rq[r].addr] = rq[r].data ]
    /\ rq' = [ rq EXCEPT ![r].pc = "endio",
                         ![r].seen =
                             IF pools[ap_pool(block_to_ap(rq[r].block))].waiting_bios
                                   # << >>
                             THEN 1 ELSE 0 ]
    /\ UNCHANGED << trans_map, rev_trans_map, pools, aps, next_write_ap, inflight,
                    gc_pending, gc_wq, gc, programmed, bug, host,
                    next_collect_pool, hint_private, config >>

\* openssd_endio after the peek: the pool's work item is queued, or the gate
\* is released
openssd_endio_after_peek(r) ==
    /\ bug = "none"
    /\ rq[r].pc = "endio"
    /\ pools' = [ pools EXCEPT ![ap_pool(block_to_ap(rq[r].block))] =
                     IF rq[r].seen # 0
                     THEN [ @ EXCEPT !.waiting_ws = 1 ]
                     ELSE [ @ EXCEPT !.is_active = 0 ] ]
    /\ rq' = [ rq EXCEPT ![r] = IdleRq ]
    /\ UNCHANGED << trans_map, rev_trans_map, blocks, aps, next_write_ap, inflight,
                    flash, gc_pending, gc_wq, gc, programmed, bug, host,
                    next_collect_pool, hint_private, config >>

NextGate ==
    \/ \E r \in BioIds, l \in LAddrs : openssd_write_bio_generic_to_gate(r, l)
    \/ \E r \in BioIds : openssd_submit_bio_after_read(r)
    \/ \E r \in BioIds : openssd_endio_to_peek(r)
    \/ \E r \in BioIds : openssd_endio_after_peek(r)
    \/ \E p \in PoolIds : openssd_delayed_bio_submit(p)

SpecGate == InitCore /\ [][NextGate]_vars

\* C34: no bio stays on a pool's waiting_bios with the pool's gate released:
\* whenever the queue is not empty the pool is active, so that a completion
\* is still to come that dispatches the queued bio
C34_QueuedImpliesActive ==
    \A p \in PoolIds : pools[p].waiting_bios # << >> => pools[p].is_active = 1


-----------------------------------------------------------------------------
(* Properties of SpecCore: a block's reference count *)

\* the bios in flight that took a reference on block b: the reads that
\* openssd_lookup_ltop answered with an entry of b
RefHolders(b) ==
    { r \in DOMAIN rq : rq[r].pc = "submitted" /\ rq[r].op = "read" /\ rq[r].block = b }

\* the count a block has with no I/O outstanding: the one reference that
\* nvm_pool_get_block initialises it with while the block is in use
RefBaseline(b) == IF \E p \in PoolIds : InSeq(b, pools[p].used_list) THEN 1 ELSE 0

\* C35: a block's ref_count is its baseline plus the number of outstanding
\* bios that hold a reference on it; a completion takes back only what a
\* lookup took, so no write completion brings the count below the baseline
C35_RefCountIsHolders ==
    \A b \in BlockIds : blocks[b].ref_count = RefBaseline(b) + Cardinality(RefHolders(b))


-----------------------------------------------------------------------------
(* Properties of SpecHint: how often a hint is consumed *)

\* C36: a hint is consumed at most count times: no record on the hint list
\* has a processed count above its count
C36_ProcessedAtMostCount ==
    \A i \in 1 .. Len(hint_private.hintlist) :
        hint_private.hintlist[i].processed <= hint_private.hintlist[i].count


\* C37: the record a writer got from openssd_find_hint is not freed by
\* another writer before that writer is through with it: every writer that
\* still has a copy to map, or the processed == count test to make, holds a
\* record that is on the hint list
C37_HintHeldIsLive ==
    \A w \in DOMAIN rq :
        rq[w].pc \in { "shadow", "pack" } => ~ hint_info_freed(rq[w].hint_info)


-----------------------------------------------------------------------------
(* SpecLock: the spin-lock sections of the block, pool, mapping and         *)
(* collector code, run by concurrent tasks (host writers, completion        *)
(* handlers, collector work items).  A task's record in rq holds the        *)
(* section it runs, its position in it and the locks it holds, in the order *)
(* it took them.                                                            *)

GcLock(p) == << "gc_lock", p >>

\* nvmd->trans_lock of part_002, s->rev_lock in vsl.c: the one lock of the
\* mapping tables
MapLock == << "trans_lock" >>

PoolLock(p) == << "lock", p >>

BlockLock(b) == << "block_lock", b >>

InflightLock(i) == << "inflight_lock", i >>

\* the place of a lock in the documented order
LockRank(l) ==
    IF l[1] = "gc_lock" THEN 1
    ELSE IF l[1] = "trans_lock" THEN 2
    ELSE IF l[1] = "lock" THEN 3
    ELSE IF l[1] = "block_lock" THEN 4
    ELSE 5

Lock(l) == [ op |-> "spin_lock", l |-> l ]

Unlock(l) == [ op |-> "spin_unlock", l |-> l ]

\* nvm_gc_collect: the pool's gc_lock, then trans_lock, around the selection
\* of victims (kref_put and nvm_block_release take no lock)
nvm_gc_collect_locks(p) ==
    << Lock(GcLock(p)), Lock(MapLock), Unlock(MapLock), Unlock(GcLock(p)) >>

\* an update of the map that takes the block's lock first
nvm_update_map_locks_inverted(b) ==
    IF b = NoBlock THEN << Lock(MapLock), Unlock(MapLock) >>
    ELSE << Lock(BlockLock(b)), Lock(MapLock), Unlock(MapLock), Unlock(BlockLock(b)) >>

\* nvm_update_map: rev_lock, and inside it invalidate_block_page with the
\* lock of the block the entry pointed to (b; NoBlock for an empty entry)
nvm_update_map_locks(b) ==
    IF b = NoBlock THEN << Lock(MapLock), Unlock(MapLock) >>
    ELSE << Lock(MapLock), Lock(BlockLock(b)), Unlock(BlockLock(b)), Unlock(MapLock) >>

\* nvm_pool_get_block: the pool's lock around the lists; with a block found
\* (b), openssd_reset_block takes the block's lock after the pool's lock is
\* released
nvm_pool_get_block_locks(p, b) ==
    IF b = NoBlock THEN << Lock(PoolLock(p)), Unlock(PoolLock(p)) >>
    ELSE << Lock(PoolLock(p)), Unlock(PoolLock(p)),
            Lock(BlockLock(b)), Unlock(BlockLock(b)) >>

\* nvm_pool_put_block
nvm_pool_put_block_locks(p) == << Lock(PoolLock(p)), Unlock(PoolLock(p)) >>

\* nvm_alloc_phys_addr / __openssd_alloc_phys_addr
nvm_alloc_phys_addr_locks(b) == << Lock(BlockLock(b)), Unlock(BlockLock(b)) >>

\* nvm_lock_laddr_range and nvm_unlock_laddr_range: the shard's lock around
\* the shard's list of requests
nvm_lock_laddr_range_locks(i) == << Lock(InflightLock(i)), Unlock(InflightLock(i)) >>

LockPools == 0 .. (NrLockPools - 1)

LockBlocks == 0 .. (NrLockBlocks - 1)

\* the sections a task can enter
LockSections ==
    { nvm_gc_collect_locks(p) : p \in LockPools }
    \cup { nvm_update_map_locks(b) : b \in LockBlocks \cup { NoBlock } }
    \cup { nvm_pool_get_block_locks(p, b) :
             p \in LockPools, b \in LockBlocks \cup { NoBlock } }
    \cup { nvm_pool_put_block_locks(p) : p \in LockPools }
    \cup { nvm_alloc_phys_addr_locks(b) : b \in LockBlocks }
    \cup { nvm_lock_laddr_range_locks(i) : i \in 0 .. (NrLockShards - 1) }

IdleTask == [ pc |-> "idle", section |-> << >>, at |-> 0, held |-> << >> ]

InitLock ==
    /\ rq = [ t \in 1 .. NrLockTasks |-> IdleTask ]
    /\ config = [ nr_pools |-> NrLockPools, nr_blks_per_pool |-> 1,
                  nr_pages_per_blk |-> 1, nr_aps_per_pool |-> 1, flags |-> {} ]
    /\ next_write_ap = 0 - 1
    /\ trans_map = << >>
    /\ rev_trans_map = << >>
    /\ blocks = << >>
    /\ pools = << >>
    /\ aps = << >>
    /\ next_collect_pool = 0
    /\ hint_private = NoHintPrivate
    /\ bug = "none"
    /\ inflight = {}
    /\ flash = << >>
    /\ gc_pending = {}
    /\ gc_wq = << >>
    /\ gc = IdleGc
    /\ programmed = {}
    /\ host = NoHost

\* some task holds lock l
LockHeld(l) == \E t \in DOMAIN rq : InSeq(l, rq[t].held)

\* the operation task t is at
LockOp(t) == rq[t].section[rq[t].at]

\* task t enters a section
lock_section_enter(t, section) ==
    /\ rq[t].pc = "idle"
    /\ rq' = [ rq EXCEPT ![t] = [ pc |-> "run", section |-> section, at |-> 1,
                                  held |-> << >> ] ]
    /\ UNCHANGED << trans_map, rev_trans_map, blocks, pools, aps, next_write_ap,
                    inflight, flash, gc_pending, gc_wq, gc, programmed, bug, host,
                    next_collect_pool, hint_private, config >>

\* spin_lock: the task gets the lock once no task holds it
spin_lock(t) ==
    /\ rq[t].pc = "run"
    /\ LockOp(t).op = "spin_lock"
    /\ ~ LockHeld(LockOp(t).l)
    /\ rq' = [ rq EXCEPT ![t].held = Append(@, LockOp(t).l), ![t].at = @ + 1 ]
    /\ UNCHANGED << trans_map, rev_trans_map, blocks, pools, aps, next_write_ap,
                    inflight, flash, gc_pending, gc_wq, gc, programmed, bug, host,
                    next_collect_pool, hint_private, config >>

\* spin_unlock; after the section's last operation the task is idle again
spin_unlock(t) ==
    /\ rq[t].pc = "run"
    /\ LockOp(t).op = "spin_unlock"
    /\ rq' = [ rq EXCEPT ![t] =
                 IF rq[t].at = Len(rq[t].section) THEN IdleTask
                 ELSE [ @ EXCEPT !.held = ListDel(@, LockOp(t).l), !.at = @ + 1 ] ]
    /\ UNCHANGED << trans_map, rev_trans_map, blocks, pools, aps, next_write_ap,
                    inflight, flash, gc_pending, gc_wq, gc, programmed, bug, host,
                    next_collect_pool, hint_private, config >>

NextLock ==
    \/ \E t \in DOMAIN rq, section \in LockSections : lock_section_enter(t, section)
    \/ \E t \in DOMAIN rq : spin_lock(t)
    \/ \E t \in DOMAIN rq : spin_unlock(t)

SpecLock == InitLock /\ [][NextLock]_vars

\* task t spins on a lock that task u holds
LockWaitsFor(t, u) ==
    /\ rq[t].pc = "run"
    /\ LockOp(t).op = "spin_lock"
    /\ InSeq(LockOp(t).l, rq[u].held)

\* C38: every task holds its locks in the documented order (the pool's
\* gc_lock, the mapping lock, the pool's lock, the block's lock, the inflight
\* shard's lock), and there is no set of tasks each of which spins on a lock
\* that a task of the set holds
C38_LockOrderNoDeadlock ==
    /\ \A t \in DOMAIN rq : \A i, j \in 1 .. Len(rq[t].held) :
           i < j => LockRank(rq[t].held[i]) < LockRank(rq[t].held[j])
    /\ \A S \in (SUBSET DOMAIN rq) \ { {} } :
           \E t \in S : \A u \in S : ~ LockWaitsFor(t, u)

\* the collector holds a pool's gc_lock and spins on the mapping lock, which
\* a writer holds together with a block's lock, while a third task spins on
\* that block's lock
C38_Witness ==
    \E t, u, v \in DOMAIN rq :
        /\ rq[u].held = << MapLock, BlockLock(0) >>
        /\ rq[t].held = << GcLock(0) >> /\ LockWaitsFor(t, u)
        /\ rq[v].held = << >> /\ LockWaitsFor(v, u)


-----------------------------------------------------------------------------
(* SpecRead: the driver of Spec with the work queues and the device        *)
(* running; the host reads and writes as it likes.                         *)

\* kbiod_wq and kgc_wq run their work items and the device completes what
\* was submitted to it.  The relocation write retries the range lock until
\* it gets it: it is not kept out for ever by requests for the same address
\* that come and go, each of which releases the range when it completes
FairRead ==
    /\ \A r \in ReqIds : WF_vars(Complete(r))
    /\ \A p \in PoolIds : WF_vars(nvm_gc_collect(p))
    /\ WF_vars(nvm_gc_block)
    /\ WF_vars(GcLookup)
    /\ SF_vars(GcWrite)
    /\ WF_vars(GcComplete)

SpecRead == Init /\ [][Next]_vars /\ FairRead

\* under SpecRead a logical address whose block is being collected is handed
\* out again (unless the driver has stopped at a BUG_ON): neither the refused
\* read nor the relocation waits forever
ReadTerminates ==
    \A l \in LAddrs :
        lookup_ltop_fails(blocks, trans_map[l].block)
            ~> (~ lookup_ltop_fails(blocks, trans_map[l].block) \/ bug # "none")

-----------------------------------------------------------------------------
(* Properties of SpecV0Full: the pool's lock *)

\* C40: openssd_pool_get_block gives the pool's lock back on every return
\* path: between two calls of the mapping function no pool's lock is held,
\* also after a call that found the free list empty
C40_PoolLockReleased ==
    \A p \in DOMAIN pools : pools[p].lock = 0
====
